---------------------------- MODULE Spec2Model ----------------------------
(***************************************************************************)
(* Forward Factor scanner: the nightly quality filter, scoring and ranking *)
(* pipeline (ff_nightly_scanner.py) and the Forward Factor calculation     *)
(* (ff_scanner.py).                                                        *)
(*                                                                         *)
(* Numbers.  The program computes in floating point.  The model computes   *)
(* in fixed point: a percentage (an IV, a forward volatility, a Forward    *)
(* Factor, a probability) is an integer count of hundredths of a percent   *)
(* (35.20% is 3520), a volatility as a fraction (sigma) is a count of      *)
(* 1/10000 (0.3520 is 3520), a time in years is a count of 1/365 year (so  *)
(* front_dte / 365.0 is front_dte), a risk/reward ratio is a count of      *)
(* tenths.  A division or a square root rounds down to that grid.          *)
(***************************************************************************)
EXTENDS Integers, Sequences, FiniteSets, TLC

VARIABLES
    opp,              \* the Opportunity at hand (parsed scan record or emitted pair)
    result,           \* what the last call on opp returned
    calc_in,          \* arguments of the last calculate_forward_factor call
    calc_out,         \* its result
    run_pc,           \* position of run_analysis
    run_i,            \* run_analysis: how many Opportunities the for loop has taken
    opportunities,    \* run_analysis: the parsed Opportunity list, as far as read
    quality_setups,   \* run_analysis: accepted analyses
    rejected_setups,  \* run_analysis: rejected analyses
    scan_pc,          \* position of the scanner operation under way (ff_scanner.py)
    options_data,     \* group_by_expiration: the option chain it is given
    grouped,          \* group_by_expiration: the price estimate found and the result
    expirations,      \* find_best_pairs: the term structure, in dict insertion order
    pairs,            \* find_best_pairs: the pairs returned
    tickers,          \* scan_multiple: the ticker list
    scan_i,           \* scan_multiple: how many tickers the for loop has taken
    scanned,          \* scan_multiple: the tickers scan_ticker was called for, in call order
    results,          \* scan_multiple: the result list
    earn_in,          \* get_earnings_info: what the lookup and the clock deliver
    earn_out,         \* get_earnings_info: what it returned
    scan_data,        \* parse_opportunities: the 'opportunities' list of the scan JSON
    parsed,           \* parse_opportunities: what it returned or raised
    presented,        \* signal, thesis and trade structure of each parsed Opportunity
    fetch_pc,         \* position of fetch_options_chain
    fetch_log,        \* fetch_options_chain: the provider's responses so far
    fetch_out,        \* fetch_options_chain: what it returned
    slept,            \* fetch_options_chain: seconds spent in time.sleep
    cache,            \* FreeEarningsCalendar.cache: ticker -> earnings date
    worker,           \* get_earnings_date: each caller's position and locals
    fetches           \* get_earnings_date: provider fetches made, per ticker

vars == <<opp, result, calc_in, calc_out, run_pc, run_i, opportunities, quality_setups,
          rejected_setups, scan_pc, options_data, grouped, expirations, pairs, tickers,
          scan_i, scanned, results, earn_in, earn_out, scan_data, parsed, presented,
          fetch_pc, fetch_log, fetch_out, slept, cache, worker, fetches>>
oppVars == <<opp, result>>
calcVars == <<calc_in, calc_out>>
runVars == <<run_pc, run_i, opportunities, quality_setups, rejected_setups>>
groupVars == <<options_data, grouped>>
pairVars == <<expirations, pairs>>
multiVars == <<tickers, scan_i, scanned, results>>
scanVars == <<scan_pc, groupVars, pairVars, multiVars>>
earnVars == <<earn_in, earn_out>>
parseVars == <<scan_data, parsed, presented>>
fetchVars == <<fetch_pc, fetch_log, fetch_out, slept>>
cacheVars == <<cache, worker, fetches>>
edgeVars == <<parseVars, fetchVars, cacheVars>>
coreVars == <<oppVars, calcVars, runVars, scanVars, earnVars>>

----------------------------------------------------------------------------
(* Fixed-point helpers *)

\* n whole percent (or n whole units of a two-decimal quantity) on the grid
Pct(n) == n * 100

\* n whole units of a one-decimal quantity (a risk/reward ratio) on the grid
Tenths(n) == n * 10

Abs(x) == IF x < 0 THEN -x ELSE x

Max(a, b) == IF a >= b THEN a ELSE b

\* a / b rounded down to the grid, b # 0
Div(a, b) == IF b > 0 THEN a \div b ELSE (-a) \div (-b)

Min(a, b) == IF a <= b THEN a ELSE b

RECURSIVE SqrtIter(_, _)
SqrtIter(n, x) ==
    LET y == (x + (n \div x)) \div 2
    IN  IF y >= x THEN x ELSE SqrtIter(n, y)

\* x ** 0.5 rounded down, n >= 0
ISqrt(n) == IF n = 0 THEN 0 ELSE SqrtIter(n, n)

----------------------------------------------------------------------------
(* ff_nightly_scanner.py: configuration *)

MIN_FORWARD_FACTOR == Pct(30)
MIN_DTE == 7
MAX_DTE == 180
MIN_IV == Pct(15)
MAX_IV == Pct(150)
MIN_PROBABILITY == Pct(70)
MIN_RISK_REWARD == Tenths(3)

\* Optional[EarningsInfo]: None
NoEarningsInfo == [kind |-> "None"]

\* EarningsInfo(...)
EarningsInfo(date, soon, pre, post, both) ==
    [kind |-> "EarningsInfo", earnings_date |-> date, has_earnings_soon |-> soon,
     front_is_pre_earnings |-> pre, back_is_post_earnings |-> post,
     both_post_earnings |-> both]

\* Opportunity(...)
Opportunity(ff, fdte, fiv, bdte, biv, fvol, id, soon) ==
    [forward_factor |-> ff, front_dte |-> fdte, front_iv |-> fiv,
     back_dte |-> bdte, back_iv |-> biv, forward_vol |-> fvol,
     opportunity_id |-> id, has_earnings_soon |-> soon]

\* Opportunity.is_inverted
is_inverted(o) == o.front_iv > o.back_iv

\* Opportunity.get_dte_diff
get_dte_diff(o) == o.back_dte - o.front_dte

----------------------------------------------------------------------------
(* FFScannerService.verify_forward_factor *)

\* mutant: the ratio is taken against the back IV
verify_forward_factor_back(o) ==
    IF o.forward_vol = 0
    THEN [calculated_ff |-> 0, matches |-> FALSE]
    ELSE LET calculated_ff == ((o.back_iv * 10000) \div o.forward_vol) - Pct(100)
         IN  [calculated_ff |-> calculated_ff,
              matches |-> Abs(calculated_ff - o.forward_factor) < Pct(2)]

\* calculated_ff = ((front_iv / forward_vol) - 1) * 100: the ratio on the 1/10000
\* grid, minus 1 (10000), times 100, in hundredths of a percent.
verify_forward_factor(o) ==
    IF o.forward_vol = 0
    THEN [calculated_ff |-> 0, matches |-> FALSE]
    ELSE LET calculated_ff == ((o.front_iv * 10000) \div o.forward_vol) - Pct(100)
         IN  [calculated_ff |-> calculated_ff,
              matches |-> Abs(calculated_ff - o.forward_factor) < Pct(2)]

----------------------------------------------------------------------------
(* FFScannerService.calculate_probability / calculate_risk_reward *)

\* mutant: the thresholds are exclusive
calculate_probability_strict(o) ==
    LET abs_ff == Abs(o.forward_factor)
        base_prob == IF abs_ff > Pct(80) THEN Pct(85)
                     ELSE IF abs_ff > Pct(60) THEN Pct(80)
                     ELSE IF abs_ff > Pct(40) THEN Pct(75)
                     ELSE IF abs_ff > Pct(30) THEN Pct(70)
                     ELSE IF abs_ff > Pct(20) THEN Pct(65)
                     ELSE Pct(60)
    IN  IF o.has_earnings_soon THEN (base_prob * 85) \div 100 ELSE base_prob

\* base_prob *= 0.85 is base_prob * 85 / 100, exact on the grid for every step
calculate_probability(o) ==
    LET abs_ff == Abs(o.forward_factor)
        base_prob == IF abs_ff >= Pct(80) THEN Pct(85)
                     ELSE IF abs_ff >= Pct(60) THEN Pct(80)
                     ELSE IF abs_ff >= Pct(40) THEN Pct(75)
                     ELSE IF abs_ff >= Pct(30) THEN Pct(70)
                     ELSE IF abs_ff >= Pct(20) THEN Pct(65)
                     ELSE Pct(60)
    IN  IF o.has_earnings_soon THEN (base_prob * 85) \div 100 ELSE base_prob

calculate_risk_reward(o) ==
    LET abs_ff == Abs(o.forward_factor)
    IN  IF abs_ff >= Pct(80) THEN Tenths(5)
        ELSE IF abs_ff >= Pct(60) THEN Tenths(4)
        ELSE IF abs_ff >= Pct(40) THEN Tenths(3) + 5
        ELSE IF abs_ff >= Pct(30) THEN Tenths(3)
        ELSE IF abs_ff >= Pct(20) THEN Tenths(2) + 5
        ELSE Tenths(2)

----------------------------------------------------------------------------
(* FFScannerService.apply_quality_filters: a rejection reason is modelled  *)
(* by the fixed head of its message.                                       *)

\* mutant: the magnitude gate also rejects |FF| equal to the minimum
filter_magnitude_le(o) ==
    IF Abs(o.forward_factor) <= MIN_FORWARD_FACTOR
    THEN <<"Forward Factor too low">> ELSE <<>>

\* Filter 1: Forward Factor magnitude
filter_magnitude(o) ==
    IF Abs(o.forward_factor) < MIN_FORWARD_FACTOR
    THEN <<"Forward Factor too low">> ELSE <<>>

\* mutant: the DTE gates reject the bounds themselves
filter_dte_le(o) ==
    (IF o.front_dte <= MIN_DTE THEN <<"Front DTE too short">> ELSE <<>>)
    \o (IF o.front_dte >= MAX_DTE THEN <<"Front DTE too long">> ELSE <<>>)

\* Filter 2: DTE range
filter_dte(o) ==
    (IF o.front_dte < MIN_DTE THEN <<"Front DTE too short">> ELSE <<>>)
    \o (IF o.front_dte > MAX_DTE THEN <<"Front DTE too long">> ELSE <<>>)

\* Filter 3: IV range
filter_iv(o) ==
    (IF o.front_iv < MIN_IV THEN <<"Front IV too low">> ELSE <<>>)
    \o (IF o.front_iv > MAX_IV THEN <<"Front IV too high">> ELSE <<>>)

\* mutant: the override needs more than 40%, so exactly 40% is rejected
filter_catalyst_le(o, earnings_info) ==
    IF o.has_earnings_soon /\ is_inverted(o)
    THEN IF Abs(o.forward_factor) <= Pct(40) THEN <<"FALSE SIGNAL">> ELSE <<>>
    ELSE <<>>

\* Filter 4: Catalyst validation (earnings_info is not consulted)
filter_catalyst(o, earnings_info) ==
    IF o.has_earnings_soon /\ is_inverted(o)
    THEN IF Abs(o.forward_factor) < Pct(40) THEN <<"FALSE SIGNAL">> ELSE <<>>
    ELSE <<>>

\* Filter 5: Verify calculation
filter_verify(o) ==
    IF ~verify_forward_factor(o).matches
    THEN <<"Forward Factor calculation mismatch">> ELSE <<>>

\* Filter 6: DTE difference
filter_dte_diff(o) ==
    LET dte_diff == get_dte_diff(o)
    IN  IF dte_diff < 3 THEN <<"DTE difference too small">> ELSE <<>>

\* mutant: is_quality is taken before the last two filters have run
apply_quality_filters_early(o, earnings_info) ==
    LET first == filter_magnitude(o) \o filter_dte(o) \o filter_iv(o)
                 \o filter_catalyst(o, earnings_info)
        rejection_reasons == first \o filter_verify(o) \o filter_dte_diff(o)
    IN  [is_quality |-> Len(first) = 0, rejection_reasons |-> rejection_reasons]

\* mutant: the filters are chained with elif, so only the first failure is kept
apply_quality_filters_elif(o, earnings_info) ==
    LET all == filter_magnitude(o) \o filter_dte(o) \o filter_iv(o)
               \o filter_catalyst(o, earnings_info) \o filter_verify(o)
               \o filter_dte_diff(o)
        rejection_reasons == IF Len(all) = 0 THEN <<>> ELSE <<Head(all)>>
    IN  [is_quality |-> Len(rejection_reasons) = 0,
         rejection_reasons |-> rejection_reasons]

apply_quality_filters(o, earnings_info) ==
    LET rejection_reasons ==
            filter_magnitude(o) \o filter_dte(o) \o filter_iv(o)
            \o filter_catalyst(o, earnings_info) \o filter_verify(o)
            \o filter_dte_diff(o)
    IN  [is_quality |-> Len(rejection_reasons) = 0,
         rejection_reasons |-> rejection_reasons]

----------------------------------------------------------------------------
(* FFScannerService.calculate_rating / analyze_opportunity *)

\* the sum before the final clamp
rating_sum(o, earnings_info, probability, risk_reward, abs_ff) ==
    5
    + (IF abs_ff >= Pct(80) THEN 3
       ELSE IF abs_ff >= Pct(60) THEN 2
       ELSE IF abs_ff >= Pct(40) THEN 1 ELSE 0)
    + (IF earnings_info.kind # "None" /\ earnings_info.has_earnings_soon
          /\ earnings_info.front_is_pre_earnings
          /\ earnings_info.back_is_post_earnings THEN 1 ELSE 0)
    + (IF 20 <= o.front_dte /\ o.front_dte <= 60 THEN 1 ELSE 0)
    - (IF is_inverted(o) THEN 1 ELSE 0)
    + (IF probability >= Pct(80) THEN 1 ELSE 0)
    + (IF risk_reward >= Tenths(4) THEN 1 ELSE 0)

\* mutant: the result is returned without the clamp
calculate_rating_unclamped(o, earnings_info, probability, risk_reward) ==
    rating_sum(o, earnings_info, probability, risk_reward, Abs(o.forward_factor))

\* mutant: the Forward Factor bonus reads the signed value
calculate_rating_signed(o, earnings_info, probability, risk_reward) ==
    Max(0, Min(10, rating_sum(o, earnings_info, probability, risk_reward,
                              o.forward_factor)))

\* mutant: missing earnings data costs a point
calculate_rating_unknown(o, earnings_info, probability, risk_reward) ==
    Max(0, Min(10, rating_sum(o, earnings_info, probability, risk_reward,
                              Abs(o.forward_factor))
                   - (IF earnings_info.kind = "None" THEN 1 ELSE 0)))

\* mutant: an inverted structure costs two points
calculate_rating_penalty2(o, earnings_info, probability, risk_reward) ==
    Max(0, Min(10, rating_sum(o, earnings_info, probability, risk_reward,
                              Abs(o.forward_factor))
                   - (IF is_inverted(o) THEN 1 ELSE 0)))

\* mutant: the catalyst bonus does not ask for has_earnings_soon
calculate_rating_nosoon(o, earnings_info, probability, risk_reward) ==
    LET clean == earnings_info.kind # "None" /\ earnings_info.front_is_pre_earnings
                 /\ earnings_info.back_is_post_earnings
        soon == earnings_info.kind # "None" /\ earnings_info.has_earnings_soon
    IN  Max(0, Min(10, rating_sum(o, earnings_info, probability, risk_reward,
                                  Abs(o.forward_factor))
                       + (IF clean /\ ~soon THEN 1 ELSE 0)))

calculate_rating(o, earnings_info, probability, risk_reward) ==
    Max(0, Min(10, rating_sum(o, earnings_info, probability, risk_reward,
                              Abs(o.forward_factor))))

\* TradeAnalysis of o, earnings_info being what get_earnings_info returned
analyze_opportunity(o, earnings_info) ==
    LET filtered == apply_quality_filters(o, earnings_info)
        probability == calculate_probability(o)
        risk_reward == calculate_risk_reward(o)
        rating == calculate_rating(o, earnings_info, probability, risk_reward)
    IN  [opportunity |-> o, earnings_info |-> earnings_info,
         is_quality_setup |-> filtered.is_quality,
         rejection_reasons |-> filtered.rejection_reasons,
         probability |-> probability, risk_reward |-> risk_reward,
         rating |-> rating]

\* list.sort(key=lambda x: x.rating, reverse=True) inserts one analysis: a stable
\* sort keeps it behind every analysis already placed whose rating is not lower
RECURSIVE insert_by_rating(_, _)
insert_by_rating(sorted, a) ==
    IF sorted = <<>> THEN <<a>>
    ELSE IF Head(sorted).rating >= a.rating
         THEN <<Head(sorted)>> \o insert_by_rating(Tail(sorted), a)
         ELSE <<a>> \o sorted

RECURSIVE sort_from(_, _)
sort_from(sorted, rest) ==
    IF rest = <<>> THEN sorted
    ELSE sort_from(insert_by_rating(sorted, Head(rest)), Tail(rest))

\* mutant: equal ratings come out in reverse input order (the list is reversed
\* after an ascending sort instead of sorted with reverse=True)
sort_by_rating_unstable(setups) ==
    LET RECURSIVE ins(_, _)
        ins(sorted, a) ==
            IF sorted = <<>> THEN <<a>>
            ELSE IF Head(sorted).rating > a.rating
                 THEN <<Head(sorted)>> \o ins(Tail(sorted), a)
                 ELSE <<a>> \o sorted
        RECURSIVE go(_, _)
        go(sorted, rest) ==
            IF rest = <<>> THEN sorted ELSE go(ins(sorted, Head(rest)), Tail(rest))
    IN  go(<<>>, setups)

\* quality_setups.sort(key=lambda x: x.rating, reverse=True)
sort_by_rating(setups) == sort_from(<<>>, setups)

----------------------------------------------------------------------------
(* ForwardFactorScanner.calculate_forward_factor (ff_scanner.py) *)

CalcError(msg) == [error |-> msg]

\* mutant: the Forward Factor is taken as (forward vol - front IV) / forward vol
calculate_forward_factor_flipped(front_iv, front_dte, back_iv, back_dte) ==
    LET T1 == front_dte
        T2 == back_dte
        sigma1 == front_iv
        sigma2 == back_iv
    IN  IF T2 - T1 = 0 THEN CalcError("float division by zero")
        ELSE LET forward_var == Div((sigma2 * sigma2) * T2 - (sigma1 * sigma1) * T1,
                                    T2 - T1)
                 root == ISqrt(Max(forward_var, 0))
             IN  IF forward_var < 0 THEN CalcError("Negative forward variance")
                 ELSE IF root = 0 THEN CalcError("float division by zero")
                 ELSE [forward_vol |-> root,
                       forward_factor |-> ((root - sigma1) * 10000) \div root,
                       error |-> "None"]

\* mutant: the division by a zero root does not raise (as with numpy floats),
\* so a zero forward variance comes back as a result
calculate_forward_factor_noraise(front_iv, front_dte, back_iv, back_dte) ==
    LET T1 == front_dte
        T2 == back_dte
        sigma1 == front_iv
        sigma2 == back_iv
    IN  IF T2 - T1 = 0 THEN CalcError("float division by zero")
        ELSE LET forward_var == Div((sigma2 * sigma2) * T2 - (sigma1 * sigma1) * T1,
                                    T2 - T1)
                 root == ISqrt(Max(forward_var, 0))
             IN  IF forward_var < 0 THEN CalcError("Negative forward variance")
                 ELSE [forward_vol |-> root,
                       forward_factor |-> IF root = 0 THEN 0
                                          ELSE ((sigma1 - root) * 10000) \div root,
                       error |-> "None"]

\* T1, T2 in 1/365 year; sigma1, sigma2 on the 1/10000 grid (front_iv / 100.0 of a
\* percentage in hundredths is the same count); forward_var on the 1/10^8 grid;
\* root = forward_var ** 0.5 on the 1/10000 grid; forward_vol = root * 100 and
\* forward_factor = ((sigma1 - root) / root) * 100 in hundredths of a percent.
\* A zero divisor raises ZeroDivisionError, which the except clause turns into
\* an error result.
calculate_forward_factor(front_iv, front_dte, back_iv, back_dte) ==
    LET T1 == front_dte
        T2 == back_dte
        sigma1 == front_iv
        sigma2 == back_iv
    IN  IF T2 - T1 = 0 THEN CalcError("float division by zero")
        ELSE LET forward_var == Div((sigma2 * sigma2) * T2 - (sigma1 * sigma1) * T1,
                                    T2 - T1)
                 root == ISqrt(Max(forward_var, 0))
             IN  IF forward_var < 0 THEN CalcError("Negative forward variance")
                 ELSE IF root = 0 THEN CalcError("float division by zero")
                 ELSE [forward_vol |-> root,
                       forward_factor |-> ((sigma1 - root) * 10000) \div root,
                       error |-> "None"]

----------------------------------------------------------------------------
(* ForwardFactorScanner.group_by_expiration.  An optional value (a missing  *)
(* key, None) is a set of at most one element.  A delta is a count of       *)
(* hundredths, a strike a whole number, a date a day number.                *)

\* datetime.now().date(), as a day number
Today == 1000

\* one item of the expirations dict
TermPoint(date, iv, dte, count) == [date |-> date, iv |-> iv, dte |-> dte, count |-> count]

Absent == {}
Some(x) == {x}

\* a 'YYYY-MM-DD' string naming the day, and a string strptime rejects
DateStr(day) == [valid |-> TRUE, day |-> day]
BadDateStr == [valid |-> FALSE]

\* one record of the option chain: greeks.delta, details.strike_price,
\* details.expiration_date, implied_volatility
Contract(delta, strike_price, expiration_date, implied_volatility) ==
    [delta |-> delta, strike_price |-> strike_price,
     expiration_date |-> expiration_date, implied_volatility |-> implied_volatility]

parse_expiration_date(exp_date_str) ==
    IF exp_date_str.valid THEN Some(exp_date_str.day) ELSE Absent

calculate_dte(expiration_date) == expiration_date - Today

\* the delta is there, is not zero, and 0.45 <= abs(delta) <= 0.55
is_near_atm(option) ==
    \E delta \in option.delta :
        delta # 0 /\ 45 <= Abs(delta) /\ Abs(delta) <= 55

\* mutant: the loop has no break, so the last near-ATM contract sets the price
RECURSIVE estimate_stock_price_nobreak(_)
estimate_stock_price_nobreak(options) ==
    IF options = <<>> THEN Absent
    ELSE LET later == estimate_stock_price_nobreak(Tail(options))
         IN  IF later # Absent THEN later
             ELSE IF is_near_atm(Head(options))
                  THEN Some(Head(options).strike_price)
                  ELSE Absent

\* the first loop: the strike of the first near-ATM contract, or None
RECURSIVE estimate_stock_price(_)
estimate_stock_price(options) ==
    IF options = <<>> THEN Absent
    ELSE IF is_near_atm(Head(options)) THEN Some(Head(options).strike_price)
         ELSE estimate_stock_price(Tail(options))

\* the second loop keeps the contract: none of its continue statements is taken
keeps(option, stock_price) ==
    /\ parse_expiration_date(option.expiration_date) # Absent
    /\ ~(10 * Abs(option.strike_price - stock_price) > stock_price)
    /\ \E iv \in option.implied_volatility : ~(iv <= 0 \/ iv > Pct(500))

\* expirations[exp_date].append(iv) on the defaultdict, kept as a sequence of
\* [date, iv_list] in insertion order
append_iv(by_date, date, iv) ==
    IF \E i \in 1..Len(by_date) : by_date[i].date = date
    THEN [i \in 1..Len(by_date) |->
            IF by_date[i].date = date
            THEN [by_date[i] EXCEPT !.iv_list = Append(@, iv)]
            ELSE by_date[i]]
    ELSE Append(by_date, [date |-> date, iv_list |-> <<iv>>])

RECURSIVE collect_ivs(_, _, _)
collect_ivs(by_date, options, stock_price) ==
    IF options = <<>> THEN by_date
    ELSE LET option == Head(options)
             next == IF keeps(option, stock_price)
                     THEN append_iv(by_date, option.expiration_date.day,
                                    CHOOSE iv \in option.implied_volatility : TRUE)
                     ELSE by_date
         IN  collect_ivs(next, Tail(options), stock_price)

RECURSIVE Sum(_)
Sum(seq) == IF seq = <<>> THEN 0 ELSE Head(seq) + Sum(Tail(seq))

\* mutant: two contracts are enough for an expiration
RECURSIVE average_ivs_two(_)
average_ivs_two(by_date) ==
    IF by_date = <<>> THEN <<>>
    ELSE LET iv_list == Head(by_date).iv_list
             dte == calculate_dte(Head(by_date).date)
         IN  (IF Len(iv_list) >= 2 /\ dte > 0
              THEN <<TermPoint(Head(by_date).date, Div(Sum(iv_list), Len(iv_list)),
                               dte, Len(iv_list))>>
              ELSE <<>>)
             \o average_ivs_two(Tail(by_date))

\* the last loop: the average IV of each expiration with at least 3 contracts
\* and a positive dte
RECURSIVE average_ivs(_)
average_ivs(by_date) ==
    IF by_date = <<>> THEN <<>>
    ELSE LET iv_list == Head(by_date).iv_list
             dte == calculate_dte(Head(by_date).date)
         IN  (IF Len(iv_list) >= 3 /\ dte > 0
              THEN <<TermPoint(Head(by_date).date, Div(Sum(iv_list), Len(iv_list)),
                               dte, Len(iv_list))>>
              ELSE <<>>)
             \o average_ivs(Tail(by_date))

group_by_expiration(options) ==
    LET found == estimate_stock_price(options)
        stock_price == CHOOSE strike \in found : TRUE
    IN  IF found = Absent \/ stock_price = 0 THEN <<>>
        ELSE average_ivs(collect_ivs(<<>>, options, stock_price))

----------------------------------------------------------------------------
(* ForwardFactorScanner.find_best_pairs.  The expirations dict is a sequence *)
(* of its items in insertion order: the key (a date, counted in days) and   *)
(* the value's iv, dte and count.                                            *)

\* sorted() places one more item: behind every item whose dte is not larger
RECURSIVE insert_by_dte(_, _)
insert_by_dte(sorted, item) ==
    IF sorted = <<>> THEN <<item>>
    ELSE IF Head(sorted).dte <= item.dte
         THEN <<Head(sorted)>> \o insert_by_dte(Tail(sorted), item)
         ELSE <<item>> \o sorted

RECURSIVE sorted_from(_, _)
sorted_from(sorted, rest) ==
    IF rest = <<>> THEN sorted
    ELSE sorted_from(insert_by_dte(sorted, Head(rest)), Tail(rest))

\* sorted(expirations.items(), key=lambda x: x[1]['dte'])
sorted_by_dte(exps) == sorted_from(<<>>, exps)

\* the dict find_best_pairs appends for front and back, calc being the defined
\* result of calculate_forward_factor
Pair(front, back, calc) ==
    [front_date |-> front.date, front_iv |-> front.iv, front_dte |-> front.dte,
     back_date |-> back.date, back_iv |-> back.iv, back_dte |-> back.dte,
     forward_vol |-> calc.forward_vol, forward_factor |-> calc.forward_factor]

\* mutant: the loop stops at the first pair with an error (break for continue)
RECURSIVE pairs_from_break(_, _)
pairs_from_break(sorted_exp, i) ==
    IF i > Len(sorted_exp) - 1 THEN <<>>
    ELSE LET front == sorted_exp[i]
             back == sorted_exp[i + 1]
             calc == calculate_forward_factor(front.iv, front.dte, back.iv, back.dte)
         IN  IF calc.error # "None" THEN <<>>
             ELSE <<Pair(front, back, calc)>> \o pairs_from_break(sorted_exp, i + 1)

\* mutant: a front whose adjacent pair has an error is paired with the
\* expiration after the next
RECURSIVE pairs_from_skip(_, _)
pairs_from_skip(sorted_exp, i) ==
    IF i > Len(sorted_exp) - 1 THEN <<>>
    ELSE LET front == sorted_exp[i]
             back == sorted_exp[i + 1]
             calc == calculate_forward_factor(front.iv, front.dte, back.iv, back.dte)
             far == sorted_exp[i + 2]
             calc2 == calculate_forward_factor(front.iv, front.dte, far.iv, far.dte)
         IN  (IF calc.error = "None" THEN <<Pair(front, back, calc)>>
              ELSE IF i + 2 <= Len(sorted_exp) /\ calc2.error = "None"
                   THEN <<Pair(front, far, calc2)>>
                   ELSE <<>>)
             \o pairs_from_skip(sorted_exp, i + 1)

\* the for loop from index i on (i counts from 1): for i in range(len - 1)
RECURSIVE pairs_from(_, _)
pairs_from(sorted_exp, i) ==
    IF i > Len(sorted_exp) - 1 THEN <<>>
    ELSE LET front == sorted_exp[i]
             back == sorted_exp[i + 1]
             calc == calculate_forward_factor(front.iv, front.dte, back.iv, back.dte)
         IN  (IF calc.error # "None" THEN <<>> ELSE <<Pair(front, back, calc)>>)
             \o pairs_from(sorted_exp, i + 1)

find_best_pairs(exps) == pairs_from(sorted_by_dte(exps), 1)

----------------------------------------------------------------------------
(* ForwardFactorScanner.scan_ticker / scan_multiple *)

\* scan_ticker on the chain fetch_options_chain returned: None, or the result dict
scan_ticker(ticker, options) ==
    IF options = <<>> THEN Absent
    ELSE LET exps == group_by_expiration(options)
             found == find_best_pairs(exps)
         IN  IF Len(exps) < 2 THEN Absent
             ELSE IF found = <<>> THEN Absent
             ELSE Some([ticker |-> ticker, pairs |-> found, expirations |-> exps])

\* [pair for pair in result['pairs'] if min_ff <= pair['forward_factor'] <= max_ff]
RECURSIVE filter_pairs(_, _, _)
filter_pairs(prs, min_ff, max_ff) ==
    IF prs = <<>> THEN <<>>
    ELSE (IF min_ff <= Head(prs).forward_factor /\ Head(prs).forward_factor <= max_ff
          THEN <<Head(prs)>> ELSE <<>>)
         \o filter_pairs(Tail(prs), min_ff, max_ff)

\* the sort key: abs(forward_factor) with reverse=True orders as -abs ascending
pair_key(pair, sort_by) ==
    IF sort_by = "abs" THEN -Abs(pair.forward_factor) ELSE pair.forward_factor

RECURSIVE insert_pair(_, _, _)
insert_pair(sorted, pair, sort_by) ==
    IF sorted = <<>> THEN <<pair>>
    ELSE IF pair_key(Head(sorted), sort_by) <= pair_key(pair, sort_by)
         THEN <<Head(sorted)>> \o insert_pair(Tail(sorted), pair, sort_by)
         ELSE <<pair>> \o sorted

RECURSIVE sort_pairs_from(_, _, _)
sort_pairs_from(sorted, rest, sort_by) ==
    IF rest = <<>> THEN sorted
    ELSE sort_pairs_from(insert_pair(sorted, Head(rest), sort_by), Tail(rest), sort_by)

\* result['pairs'].sort(...) of every result; sort_by 'ticker' sorts nothing
sort_results(res, sort_by) ==
    IF sort_by \in {"abs", "ff"}
    THEN [k \in 1..Len(res) |->
            [res[k] EXCEPT !.pairs = sort_pairs_from(<<>>, @, sort_by)]]
    ELSE res

----------------------------------------------------------------------------
(* get_earnings_info: FFScannerService (ff_nightly_scanner.py) and the      *)
(* calendars of ff_earnings_free.py and ff_earnings_yahoo.py.  A datetime   *)
(* is a day number and an hour of the day.                                  *)

\* datetime.strptime(s, '%Y-%m-%d'): midnight of the day, or ValueError (Absent)
strptime(date_str) == IF date_str.valid THEN Some(date_str.day) ELSE Absent

Datetime(day, hour) == [day |-> day, hour |-> hour]

\* (earnings_dt - now).days: timedelta.days rounds down to whole days
days_until(earnings_day, now) == ((earnings_day - now.day) * 24 - now.hour) \div 24

\* get_ticker_details raised; otherwise next_earnings_date, if there is one
LookupRaised == [raised |-> TRUE]
LookupAnswer(earnings_date) == [raised |-> FALSE, earnings_date |-> earnings_date]

\* FFScannerService.get_earnings_info; client: self.polygon_client is set
get_earnings_info(client, lookup, front_date, back_date, now) ==
    IF ~client THEN NoEarningsInfo
    ELSE IF lookup.raised THEN NoEarningsInfo
    ELSE IF lookup.earnings_date = Absent
    THEN EarningsInfo(Absent, FALSE, FALSE, FALSE, FALSE)
    ELSE LET earnings_date == CHOOSE d \in lookup.earnings_date : TRUE
         IN  IF \/ strptime(earnings_date) = Absent
                \/ strptime(front_date) = Absent
                \/ strptime(back_date) = Absent
             THEN NoEarningsInfo
             ELSE LET earnings_dt == earnings_date.day
                      front_dt == front_date.day
                      back_dt == back_date.day
                  IN  EarningsInfo(Some(earnings_date),
                                   Abs(days_until(earnings_dt, now)) < 60,
                                   front_dt < earnings_dt,
                                   back_dt > earnings_dt,
                                   front_dt > earnings_dt /\ back_dt > earnings_dt)

\* the dict FreeEarningsCalendar and YahooEarningsCalendar return
CalendarInfo(date, pre, post, both) ==
    [earnings_date |-> date, front_is_pre_earnings |-> pre,
     back_is_post_earnings |-> post, both_post_earnings |-> both]

\* FreeEarningsCalendar.get_earnings_info (YahooEarningsCalendar's is the same
\* text); earnings_date is what get_earnings_date returned
calendar_get_earnings_info(earnings_date, front_date, back_date) ==
    IF earnings_date = Absent THEN CalendarInfo(Absent, FALSE, FALSE, FALSE)
    ELSE LET date_str == CHOOSE d \in earnings_date : TRUE
         IN  IF \/ strptime(date_str) = Absent
                \/ strptime(front_date) = Absent
                \/ strptime(back_date) = Absent
             THEN CalendarInfo(earnings_date, FALSE, FALSE, FALSE)
             ELSE LET earnings_dt == date_str.day
                      front_dt == front_date.day
                      back_dt == back_date.day
                  IN  CalendarInfo(earnings_date,
                                   front_dt < earnings_dt,
                                   back_dt > earnings_dt,
                                   front_dt > earnings_dt /\ back_dt > earnings_dt)

----------------------------------------------------------------------------
(* FFScannerService.parse_opportunities.  A value of the scan JSON is a     *)
(* record: a number, a string that reads as a number ("45.0"), any other    *)
(* string, or null.  A record of the 'opportunities' list maps each key to  *)
(* an optional value: Absent is a missing key.  An evaluation either        *)
(* returns a value or raises.                                               *)

JNumber(n) == [json |-> "number", value |-> n]
JNumeric(n) == [json |-> "string", numeric |-> TRUE, value |-> n]
JText(text) == [json |-> "string", numeric |-> FALSE, text |-> text]
JNull == [json |-> "null"]

Raised(exception) == [raised |-> exception]
Returned(value) == [raised |-> "None", value |-> value]

\* opp[key]: KeyError on a missing key
subscript(rec, key) ==
    IF rec[key] = Absent THEN Raised("KeyError")
    ELSE Returned(CHOOSE v \in rec[key] : TRUE)

\* the Python value of a JSON value that is passed on unconverted
as_is(x) ==
    IF x.raised # "None" THEN x
    ELSE IF x.value.json = "null" THEN Returned("None")
    ELSE IF x.value.json = "number" \/ x.value.numeric THEN Returned(x.value.value)
    ELSE Returned(x.value.text)

\* float(x): TypeError on None, ValueError on a string that is not a number
float(x) ==
    IF x.raised # "None" THEN x
    ELSE IF x.value.json = "null" THEN Raised("TypeError")
    ELSE IF x.value.json = "string" /\ ~x.value.numeric THEN Raised("ValueError")
    ELSE Returned(x.value.value)

\* int(x): a DTE is a whole number, so a number or a numeric string converts
\* to itself
int(x) ==
    IF x.raised # "None" THEN x
    ELSE IF x.value.json = "null" THEN Raised("TypeError")
    ELSE IF x.value.json = "string" /\ ~x.value.numeric THEN Raised("ValueError")
    ELSE Returned(x.value.value)

\* the first exception raised while the keyword arguments are evaluated, in order
RECURSIVE first_raised(_)
first_raised(args) ==
    IF args = <<>> THEN "None"
    ELSE IF Head(args).raised # "None" THEN Head(args).raised
    ELSE first_raised(Tail(args))

\* Opportunity(ticker=opp['ticker'], forward_factor=float(opp['forward_factor']),
\* signal=opp['signal'], ...) for one record of the list
parse_opportunity(rec) ==
    LET ticker == as_is(subscript(rec, "ticker"))
        forward_factor == float(subscript(rec, "forward_factor"))
        signal == as_is(subscript(rec, "signal"))
        front_date == as_is(subscript(rec, "front_date"))
        front_dte == int(subscript(rec, "front_dte"))
        front_iv == float(subscript(rec, "front_iv"))
        back_date == as_is(subscript(rec, "back_date"))
        back_dte == int(subscript(rec, "back_dte"))
        back_iv == float(subscript(rec, "back_iv"))
        forward_vol == float(subscript(rec, "forward_vol"))
        opportunity_id == as_is(subscript(rec, "id"))
        has_earnings_soon == rec["has_earnings_soon"] = Some(JText("true"))
        exception == first_raised(<<ticker, forward_factor, signal, front_date,
                                    front_dte, front_iv, back_date, back_dte, back_iv,
                                    forward_vol, opportunity_id>>)
    IN  IF exception # "None" THEN Raised(exception)
        ELSE Returned([ticker |-> ticker.value, signal |-> signal.value,
                       front_date |-> front_date.value, back_date |-> back_date.value]
                      @@ Opportunity(forward_factor.value, front_dte.value,
                                     front_iv.value, back_dte.value, back_iv.value,
                                     forward_vol.value, opportunity_id.value,
                                     has_earnings_soon))

\* the for loop over scan_data['opportunities']: except (KeyError, ValueError)
\* skips the record, any other exception leaves the function
RECURSIVE parse_from(_, _)
parse_from(opportunities_, rest) ==
    IF rest = <<>> THEN Returned(opportunities_)
    ELSE LET opportunity == parse_opportunity(Head(rest))
         IN  IF opportunity.raised = "None"
             THEN parse_from(Append(opportunities_, opportunity.value), Tail(rest))
             ELSE IF opportunity.raised \in {"KeyError", "ValueError"}
             THEN parse_from(opportunities_, Tail(rest))
             ELSE Raised(opportunity.raised)

parse_opportunities(records) == parse_from(<<>>, records)

----------------------------------------------------------------------------
(* FFScannerService.generate_thesis / generate_trade_structure: the text is *)
(* modelled by its direction line, its catalyst paragraph's kind and the   *)
(* trade structure's heading.                                              *)

generate_thesis(o, earnings_info) ==
    [direction |-> IF o.forward_factor > 0 THEN "SELL FRONT / BUY BACK"
                   ELSE "BUY FRONT / SELL BACK",
     catalyst |-> IF earnings_info.kind # "None" /\ earnings_info.earnings_date # Absent
                  THEN "CATALYST: Earnings on"
                  ELSE IF o.has_earnings_soon
                       THEN "CATALYST: Earnings expected soon"
                       ELSE "NO IMMINENT CATALYST"]

generate_trade_structure(o) ==
    IF o.forward_factor > 0 THEN "Calendar Spread (Credit)"
    ELSE "Reverse Calendar Spread (Debit)"

----------------------------------------------------------------------------
(* Inputs *)

\* the forward_vol a scanner reports beside forward_factor ff and front IV fiv
ConsistentVol(fiv, ff) == (fiv * 10000) \div (10000 + ff)

ScanFFs == {-Pct(45), Pct(25), 2999, Pct(30), Pct(35), Pct(40), Pct(45),
            Pct(58), Pct(60), Pct(80)}
ScanFrontDTEs == {6, 7, 20, 180, 181}
ScanDTEDiffs == {2, 3}
ScanFrontIVs == {1499, Pct(15), Pct(40), Pct(150), 15001}
ScanBackIVs == {Pct(30), Pct(40)}
ScanVolModes == {"zero", "consistent", "fixed"}

ScanVol(mode, fiv, ff) ==
    IF mode = "zero" THEN 0
    ELSE IF mode = "consistent" THEN ConsistentVol(fiv, ff)
    ELSE Pct(25)

\* the scan records parse_opportunities may deliver
ScanOpportunities ==
    { Opportunity(ff, fdte, fiv, fdte + diff, biv, ScanVol(mode, fiv, ff), 1, soon) :
        ff \in ScanFFs, fdte \in ScanFrontDTEs, fiv \in ScanFrontIVs,
        diff \in ScanDTEDiffs, biv \in ScanBackIVs, mode \in ScanVolModes,
        soon \in BOOLEAN }

\* Opportunities for the scoring functions: |FF| at and just below every
\* threshold of the step functions, both signs, front DTE at and beside the
\* bounds of the 20..60 bonus, inverted or flat
ScoreFFs == {0, 1999, Pct(20), 2999, Pct(30), 3999, Pct(40), 5999, Pct(60), 7999,
             Pct(80), Pct(120), -1999, -Pct(20), -Pct(40), -7999, -Pct(80)}
ScoreFrontDTEs == {19, 20, 60, 61}
ScoreFrontIVs == {Pct(30), Pct(40)}

ScoreOpportunities ==
    { Opportunity(ff, fdte, fiv, fdte + 30, Pct(30), ConsistentVol(fiv, ff), 1, soon) :
        ff \in ScoreFFs, fdte \in ScoreFrontDTEs, fiv \in ScoreFrontIVs,
        soon \in BOOLEAN }

\* an earnings date string
AnEarningsDate == Some(DateStr(Today + 45))

\* what get_earnings_info may return
EarningsInfos ==
    { NoEarningsInfo,
      EarningsInfo(Absent, FALSE, FALSE, FALSE, FALSE),
      EarningsInfo(AnEarningsDate, TRUE, TRUE, TRUE, FALSE),
      EarningsInfo(AnEarningsDate, FALSE, TRUE, TRUE, FALSE),
      EarningsInfo(AnEarningsDate, TRUE, FALSE, TRUE, TRUE) }

Probabilities == {Pct(70), 7225, Pct(80), Pct(85)}
RiskRewards == {Tenths(3), Tenths(4), Tenths(5)}

CalcIVs == {Pct(20), 2840, Pct(30), 3520, Pct(40)}
CalcFrontDTEs == {7, 28, 30}
CalcBackDTEs == {30, 60, 63, 120}

\* forward_vol and forward_factor of a scan record that need not come from
\* calculate_forward_factor
ForeignVols == {Pct(20), Pct(25)}
ForeignFFs == {Pct(60), Pct(62), Pct(100)}

RunFFs == {-Pct(80), Pct(25), Pct(45), Pct(60), Pct(80)}
RunEarningsInfos ==
    {NoEarningsInfo, EarningsInfo(AnEarningsDate, TRUE, TRUE, TRUE, FALSE)}
MaxOpps == 3

RunOpportunity(ff, soon, id) ==
    Opportunity(ff, 30, Pct(40), 60, Pct(30), ConsistentVol(Pct(40), ff), id, soon)

\* term structures find_best_pairs may be given: up to MaxPoints expirations
\* with distinct dates, in any insertion order
PairDTEs == {7, 28, 30, 60, 120}
PairIVs == {Pct(20), Pct(30), Pct(40)}
MaxPoints == 3

TermStructures ==
    UNION { { [i \in 1..n |-> TermPoint(Today + d[i], v[i], d[i], 3)] :
                d \in { f \in [1..n -> PairDTEs] :
                          \A i, j \in 1..n : i # j => f[i] # f[j] },
                v \in [1..n -> PairIVs] } : n \in 0..MaxPoints }

\* contracts an option chain may hold: near-ATM deltas at and beside the band's
\* bounds, strikes at and beyond 10% of either price estimate, a malformed
\* date, an expiration today, IVs missing, zero, at and above 500
Contracts ==
    { Contract(Some(50), 100, DateStr(Today + 30), Some(Pct(30))),
      Contract(Some(-45), 110, DateStr(Today + 30), Some(Pct(33))),
      Contract(Some(56), 100, DateStr(Today + 30), Some(Pct(36))),
      Contract(Absent, 90, DateStr(Today + 30), Some(Pct(500))),
      Contract(Absent, 111, DateStr(Today + 30), Some(Pct(30))),
      Contract(Absent, 100, BadDateStr, Some(Pct(30))),
      Contract(Absent, 100, DateStr(Today + 30), Absent),
      Contract(Absent, 100, DateStr(Today + 30), Some(0)),
      Contract(Absent, 100, DateStr(Today + 30), Some(Pct(500) + 1)),
      Contract(Absent, 100, DateStr(Today), Some(Pct(30))),
      Contract(Some(55), 100, DateStr(Today + 60), Some(Pct(42))) }

MaxContracts == 4

\* the chains fetch_options_chain may return: up to MaxContracts contracts
OptionChains == UNION { [1..n -> Contracts] : n \in 0..MaxContracts }

\* three contracts of one expiration at one IV, the first of them near the money
ExpirationContracts(dte, iv) ==
    <<Contract(Some(50), 100, DateStr(Today + dte), Some(iv)),
      Contract(Absent, 100, DateStr(Today + dte), Some(iv)),
      Contract(Absent, 105, DateStr(Today + dte), Some(iv))>>

\* what fetch_options_chain may return for a ticker: nothing; contracts but no
\* near-ATM delta; one expiration; two expirations with a defined pair; two with
\* negative forward variance; two whose Forward Factor is above max_ff; three
\* expirations out of order, the first pair undefined; three with two pairs
FetchedChains ==
    { <<>>,
      <<Contract(Some(56), 100, DateStr(Today + 30), Some(Pct(36)))>>,
      ExpirationContracts(30, Pct(40)),
      ExpirationContracts(30, Pct(40)) \o ExpirationContracts(60, Pct(36)),
      ExpirationContracts(28, Pct(40)) \o ExpirationContracts(30, Pct(20)),
      ExpirationContracts(30, Pct(40)) \o ExpirationContracts(60, Pct(30)),
      ExpirationContracts(60, Pct(30)) \o ExpirationContracts(7, Pct(40))
        \o ExpirationContracts(28, Pct(20)),
      ExpirationContracts(30, Pct(30)) \o ExpirationContracts(60, Pct(31))
        \o ExpirationContracts(120, Pct(40)) }

\* scan_multiple's ticker list and keyword arguments
Tickers == {"PLTR", "SNOW"}
MaxTickers == 3
TickerLists == UNION { [1..n -> Tickers] : n \in 0..MaxTickers }
min_ff == -Pct(100)
max_ff == Pct(100)
SortBys == {"abs", "ff", "ticker"}

\* earnings dates, in days from today: on both sides of the 60-day window
EarningsOffsets == {-61, -60, -59, -1, 0, 1, 45, 59, 60, 61}

\* what the earnings source may deliver
LookedUpDates ==
    {Absent, Some(BadDateStr)} \cup { Some(DateStr(Today + d)) : d \in EarningsOffsets }
Lookups == {LookupRaised} \cup { LookupAnswer(date) : date \in LookedUpDates }

\* the Opportunity's front_date and back_date strings
FrontDates == {DateStr(Today + 30), BadDateStr}
BackDates == {DateStr(Today + 60), BadDateStr}

\* the time of day of the lookup: midnight, noon, the last hour
LookupHours == {0, 12, 23}

\* scan records: a well-formed one with the given Forward Factor and signal,
\* and the same record with one key missing, a non-numeric string or null
ScanRecord(id, ff, signal) ==
    [ticker |-> Some(JText("PLTR")),
     forward_factor |-> Some(JNumber(ff)),
     signal |-> Some(JText(signal)),
     front_date |-> Some(JText("2025-11-21")),
     front_dte |-> Some(JNumeric(30)),
     front_iv |-> Some(JNumber(Pct(40))),
     back_date |-> Some(JText("2025-12-19")),
     back_dte |-> Some(JNumber(60)),
     back_iv |-> Some(JNumber(Pct(30))),
     forward_vol |-> Some(JNumber(ConsistentVol(Pct(40), ff))),
     id |-> Some(JNumber(id)),
     has_earnings_soon |-> Some(JText("false"))]

RecordFFs == {-Pct(45), Pct(45)}
Signals == {"SELL", "BUY"}
DamagedKeys == {"forward_factor", "front_dte", "ticker"}
Damages == {Absent, Some(JText("n/a")), Some(JNull)}

\* what a record looks like: well-formed, or damaged at one key
RecordKinds ==
    { [ff |-> ff, signal |-> signal, key |-> "none", damage |-> Absent] :
        ff \in RecordFFs, signal \in Signals }
    \cup { [ff |-> Pct(45), signal |-> "SELL", key |-> key, damage |-> damage] :
             key \in DamagedKeys, damage \in Damages }

RecordOfKind(id, kind) ==
    IF kind.key = "none" THEN ScanRecord(id, kind.ff, kind.signal)
    ELSE [ScanRecord(id, kind.ff, kind.signal) EXCEPT ![kind.key] = kind.damage]

MaxRecords == 3

\* the 'opportunities' lists a scan may hold; a record's id is its position
ScanLists ==
    UNION { { [i \in 1..n |-> RecordOfKind(i, kinds[i])] :
                kinds \in [1..n -> RecordKinds] } : n \in 0..MaxRecords }

\* what the options provider may answer to one request: 200 with or without a
\* 'results' key, the rate-limit status, other statuses, or requests.get raising
ProviderResponses ==
    { [raised |-> "None", status_code |-> 200, results |-> Some(chain)] :
        chain \in FetchedChains }
    \cup { [raised |-> "None", status_code |-> 200, results |-> Absent] }
    \cup { [raised |-> "None", status_code |-> code] : code \in {429, 404, 500} }
    \cup { [raised |-> "Timeout"] }

\* frames the interpreter allows fetch_options_chain to nest
RecursionLimit == 8

\* callers of get_earnings_date on one cache object
MaxWorkers == 2
Workers == 1..MaxWorkers

\* what the earnings provider may answer: no date, or a date (it may change)
ProviderDates == {Absent, Some(DateStr(Today + 45)), Some(DateStr(Today + 46))}

NoResult == [call |-> "none"]

\* no Opportunity delivered yet
NoOpportunity == [kind |-> "None"]

NoCalc == [front_iv |-> 0, front_dte |-> 0, back_iv |-> 0, back_dte |-> 0]

\* group_by_expiration not called yet
NoGrouped == [call |-> "none"]

\* get_earnings_info not called yet
NoLookup == [call |-> "none"]

InitOppVars == opp = NoOpportunity /\ result = NoResult
InitCalcVars == calc_in = NoCalc /\ calc_out = CalcError("not called")
InitRunVars ==
    /\ run_pc = "start"
    /\ run_i = 0
    /\ opportunities = <<>>
    /\ quality_setups = <<>>
    /\ rejected_setups = <<>>

InitScanVars ==
    /\ scan_pc = "start"
    /\ options_data = <<>>
    /\ grouped = NoGrouped
    /\ expirations = <<>>
    /\ pairs = <<>>
    /\ tickers = <<>>
    /\ scan_i = 0
    /\ scanned = <<>>
    /\ results = <<>>
InitEarnVars == earn_in = NoLookup /\ earn_out = NoLookup

\* parse_opportunities not called yet
NotParsed == [raised |-> "not called"]

Idle == [pc |-> "idle"]

InitParseVars == scan_data = <<>> /\ parsed = NotParsed /\ presented = <<>>
InitFetchVars ==
    /\ fetch_pc = "idle"
    /\ fetch_log = <<>>
    /\ fetch_out = Absent
    /\ slept = 0
InitCacheVars ==
    /\ cache = [t \in Tickers |-> Absent]
    /\ worker = [w \in Workers |-> Idle]
    /\ fetches = [t \in Tickers |-> 0]
InitEdgeVars == InitParseVars /\ InitFetchVars /\ InitCacheVars

Init ==
    InitOppVars /\ InitCalcVars /\ InitRunVars /\ InitScanVars /\ InitEarnVars
    /\ InitEdgeVars

----------------------------------------------------------------------------
(* Single calls of FFScannerService on one Opportunity *)

\* analyze_opportunity(opp); get_earnings_info answers earnings_info
AnalyzeOpportunity ==
    /\ opp # NoOpportunity
    /\ result.call = "none"
    /\ \E earnings_info \in EarningsInfos :
         result' = [call |-> "analyze_opportunity",
                    analysis |-> analyze_opportunity(opp, earnings_info)]
    /\ UNCHANGED <<opp, calcVars, runVars, scanVars, earnVars, edgeVars>>

\* calculate_rating(opp, earnings_info, probability, risk_reward)
CalculateRating ==
    /\ opp # NoOpportunity
    /\ result.call = "none"
    /\ \E earnings_info \in EarningsInfos, probability \in Probabilities,
          risk_reward \in RiskRewards :
         result' = [call |-> "calculate_rating", earnings_info |-> earnings_info,
                    probability |-> probability, risk_reward |-> risk_reward,
                    rating |-> calculate_rating(opp, earnings_info, probability,
                                                risk_reward)]
    /\ UNCHANGED <<opp, calcVars, runVars, scanVars, earnVars, edgeVars>>

\* verify_forward_factor(opp)
VerifyForwardFactor ==
    /\ opp # NoOpportunity
    /\ result.call = "none"
    /\ result' = [call |-> "verify_forward_factor",
                  verified |-> verify_forward_factor(opp)]
    /\ UNCHANGED <<opp, calcVars, runVars, scanVars, earnVars, edgeVars>>

\* parse_opportunities has delivered any one scan record
InitFilter ==
    /\ opp \in ScanOpportunities
    /\ result = NoResult
    /\ InitCalcVars
    /\ InitRunVars
    /\ InitScanVars
    /\ InitEarnVars
    /\ InitEdgeVars

NextFilter == AnalyzeOpportunity \/ CalculateRating

SpecFilter == InitFilter /\ [][NextFilter]_vars

\* calculate_probability(opp)
CalculateProbability ==
    /\ opp # NoOpportunity
    /\ result.call = "none"
    /\ result' = [call |-> "calculate_probability",
                  probability |-> calculate_probability(opp)]
    /\ UNCHANGED <<opp, calcVars, runVars, scanVars, earnVars, edgeVars>>

\* calculate_risk_reward(opp)
CalculateRiskReward ==
    /\ opp # NoOpportunity
    /\ result.call = "none"
    /\ result' = [call |-> "calculate_risk_reward",
                  risk_reward |-> calculate_risk_reward(opp)]
    /\ UNCHANGED <<opp, calcVars, runVars, scanVars, earnVars, edgeVars>>

\* the scoring functions are called on any one Opportunity
InitScore ==
    /\ opp \in ScoreOpportunities
    /\ result = NoResult
    /\ InitCalcVars
    /\ InitRunVars
    /\ InitScanVars
    /\ InitEarnVars
    /\ InitEdgeVars

NextScore ==
    \/ CalculateProbability
    \/ CalculateRiskReward
    \/ CalculateRating
    \/ AnalyzeOpportunity

SpecScore == InitScore /\ [][NextScore]_vars

----------------------------------------------------------------------------
(* The scanner computes a pair, the nightly service verifies it *)

CalculateForwardFactor ==
    /\ calc_in = NoCalc
    /\ \E front_iv \in CalcIVs, back_iv \in CalcIVs,
          front_dte \in CalcFrontDTEs, back_dte \in CalcBackDTEs :
         /\ back_dte > front_dte
         /\ calc_in' = [front_iv |-> front_iv, front_dte |-> front_dte,
                        back_iv |-> back_iv, back_dte |-> back_dte]
         /\ calc_out' = calculate_forward_factor(front_iv, front_dte,
                                                 back_iv, back_dte)
    /\ UNCHANGED <<oppVars, runVars, scanVars, earnVars, edgeVars>>

\* find_best_pairs appends the pair; the nightly service parses it as it is
EmitPair ==
    /\ opp = NoOpportunity
    /\ calc_out.error = "None"
    /\ \E soon \in BOOLEAN :
         opp' = Opportunity(calc_out.forward_factor, calc_in.front_dte,
                            calc_in.front_iv, calc_in.back_dte, calc_in.back_iv,
                            calc_out.forward_vol, 1, soon)
    /\ result' = NoResult
    /\ UNCHANGED <<calcVars, runVars, scanVars, earnVars, edgeVars>>

\* a scan record for the same expirations whose forward_vol and forward_factor
\* are whatever the scan API delivers
ParseForeignRecord ==
    /\ opp = NoOpportunity
    /\ calc_in # NoCalc
    /\ \E fvol \in ForeignVols, ff \in ForeignFFs :
         opp' = Opportunity(ff, calc_in.front_dte, calc_in.front_iv,
                            calc_in.back_dte, calc_in.back_iv, fvol, 1, FALSE)
    /\ result' = NoResult
    /\ UNCHANGED <<calcVars, runVars, scanVars, earnVars, edgeVars>>

NextCalc ==
    \/ CalculateForwardFactor
    \/ EmitPair
    \/ ParseForeignRecord
    \/ VerifyForwardFactor
    \/ AnalyzeOpportunity

SpecCalc == Init /\ [][NextCalc]_vars

----------------------------------------------------------------------------
(* FFScannerService.run_analysis *)

\* get_latest_scan returns None: run_analysis returns [], []
RunNoScanData ==
    /\ run_pc = "start"
    /\ run_pc' = "done"
    /\ UNCHANGED <<run_i, opportunities, quality_setups, rejected_setups, oppVars,
                   calcVars, scanVars, earnVars, edgeVars>>

\* get_latest_scan returns a scan, parse_opportunities its Opportunity list
RunParseOpportunities ==
    /\ run_pc = "start"
    /\ \E n \in 0..MaxOpps :
         \E ffs \in [1..n -> RunFFs], soons \in [1..n -> BOOLEAN] :
           opportunities' = [i \in 1..n |-> RunOpportunity(ffs[i], soons[i], i)]
    /\ run_pc' = "loop"
    /\ UNCHANGED <<run_i, quality_setups, rejected_setups, oppVars, calcVars, scanVars, earnVars, edgeVars>>

\* mutant: a rejected analysis is printed but not kept
RunAnalyzeNext_drop ==
    /\ run_pc = "loop"
    /\ run_i < Len(opportunities)
    /\ \E earnings_info \in RunEarningsInfos :
         LET analysis == analyze_opportunity(opportunities[run_i + 1], earnings_info)
         IN  IF analysis.is_quality_setup
             THEN quality_setups' = Append(quality_setups, analysis)
             ELSE UNCHANGED quality_setups
    /\ run_i' = run_i + 1
    /\ UNCHANGED <<run_pc, opportunities, rejected_setups, oppVars, calcVars, scanVars, earnVars, edgeVars>>

\* one pass of the for loop: the next Opportunity is analysed and appended to
\* one of the two lists
RunAnalyzeNext ==
    /\ run_pc = "loop"
    /\ run_i < Len(opportunities)
    /\ \E earnings_info \in RunEarningsInfos :
         LET analysis == analyze_opportunity(opportunities[run_i + 1], earnings_info)
         IN  IF analysis.is_quality_setup
             THEN /\ quality_setups' = Append(quality_setups, analysis)
                  /\ UNCHANGED rejected_setups
             ELSE /\ rejected_setups' = Append(rejected_setups, analysis)
                  /\ UNCHANGED quality_setups
    /\ run_i' = run_i + 1
    /\ UNCHANGED <<run_pc, opportunities, oppVars, calcVars, scanVars, earnVars, edgeVars>>

\* the loop is over: sort quality_setups and return
RunSortAndReturn ==
    /\ run_pc = "loop"
    /\ run_i = Len(opportunities)
    /\ quality_setups' = sort_by_rating(quality_setups)
    /\ run_pc' = "done"
    /\ UNCHANGED <<run_i, opportunities, rejected_setups, oppVars, calcVars, scanVars, earnVars, edgeVars>>

NextRun ==
    \/ RunNoScanData
    \/ RunParseOpportunities
    \/ RunAnalyzeNext
    \/ RunSortAndReturn

SpecRun == Init /\ [][NextRun]_vars

----------------------------------------------------------------------------
(* ForwardFactorScanner.find_best_pairs on one term structure *)

FindBestPairs ==
    /\ scan_pc = "start"
    /\ pairs' = find_best_pairs(expirations)
    /\ scan_pc' = "done"
    /\ UNCHANGED <<expirations, groupVars, multiVars, earnVars, edgeVars, oppVars, calcVars,
                   runVars>>

\* group_by_expiration has delivered any one term structure
InitPairs ==
    /\ InitOppVars /\ InitCalcVars /\ InitRunVars /\ InitEarnVars /\ InitEdgeVars
    /\ scan_pc = "start"
    /\ options_data = <<>>
    /\ grouped = NoGrouped
    /\ expirations \in TermStructures
    /\ pairs = <<>>
    /\ tickers = <<>>
    /\ scan_i = 0
    /\ scanned = <<>>
    /\ results = <<>>

NextPairs == FindBestPairs

SpecPairs == InitPairs /\ [][NextPairs]_vars

----------------------------------------------------------------------------
(* ForwardFactorScanner.group_by_expiration on one option chain *)

GroupByExpiration ==
    /\ scan_pc = "start"
    /\ grouped' = [call |-> "group_by_expiration",
                   stock_price |-> estimate_stock_price(options_data),
                   result |-> group_by_expiration(options_data)]
    /\ scan_pc' = "done"
    /\ UNCHANGED <<options_data, pairVars, multiVars, earnVars, edgeVars, oppVars, calcVars,
                   runVars>>

\* fetch_options_chain has delivered any one chain
InitGroup ==
    /\ InitOppVars /\ InitCalcVars /\ InitRunVars /\ InitEarnVars /\ InitEdgeVars
    /\ scan_pc = "start"
    /\ options_data \in OptionChains
    /\ grouped = NoGrouped
    /\ expirations = <<>>
    /\ pairs = <<>>
    /\ tickers = <<>>
    /\ scan_i = 0
    /\ scanned = <<>>
    /\ results = <<>>

NextGroup == GroupByExpiration

SpecGroup == InitGroup /\ [][NextGroup]_vars

----------------------------------------------------------------------------
(* ForwardFactorScanner.scan_multiple *)

\* mutant: a ticker without a result ends the loop (break)
ScanNextTicker_break ==
    /\ scan_pc = "loop"
    /\ scan_i < Len(tickers)
    /\ \E options \in FetchedChains :
         LET ticker == tickers[scan_i + 1]
             found == scan_ticker(ticker, options)
             res == CHOOSE r \in found : TRUE
             filtered_pairs == filter_pairs(res.pairs, min_ff, max_ff)
         IN  /\ scanned' = Append(scanned, [ticker |-> ticker, options |-> options])
             /\ results' = IF found # Absent /\ filtered_pairs # <<>>
                           THEN Append(results, [res EXCEPT !.pairs = filtered_pairs])
                           ELSE results
             /\ scan_i' = IF found = Absent THEN Len(tickers) ELSE scan_i + 1
    /\ UNCHANGED <<scan_pc, tickers, groupVars, pairVars, earnVars, edgeVars, oppVars, calcVars,
                   runVars>>

\* one pass of the for loop: fetch_options_chain answers options, scan_ticker
\* runs on it, and a result with pairs in [min_ff, max_ff] is appended
ScanNextTicker ==
    /\ scan_pc = "loop"
    /\ scan_i < Len(tickers)
    /\ \E options \in FetchedChains :
         LET ticker == tickers[scan_i + 1]
             found == scan_ticker(ticker, options)
             res == CHOOSE r \in found : TRUE
             filtered_pairs == filter_pairs(res.pairs, min_ff, max_ff)
         IN  /\ scanned' = Append(scanned, [ticker |-> ticker, options |-> options])
             /\ results' = IF found # Absent /\ filtered_pairs # <<>>
                           THEN Append(results, [res EXCEPT !.pairs = filtered_pairs])
                           ELSE results
    /\ scan_i' = scan_i + 1
    /\ UNCHANGED <<scan_pc, tickers, groupVars, pairVars, earnVars, edgeVars, oppVars, calcVars,
                   runVars>>

\* the loop is over: sort the pairs of every result and return
ScanSortAndReturn ==
    /\ scan_pc = "loop"
    /\ scan_i = Len(tickers)
    /\ \E sort_by \in SortBys : results' = sort_results(results, sort_by)
    /\ scan_pc' = "done"
    /\ UNCHANGED <<tickers, scan_i, scanned, groupVars, pairVars, earnVars, edgeVars, oppVars,
                   calcVars, runVars>>

\* scan_multiple is called with any one ticker list
InitMulti ==
    /\ InitOppVars /\ InitCalcVars /\ InitRunVars /\ InitEarnVars /\ InitEdgeVars
    /\ scan_pc = "loop"
    /\ options_data = <<>>
    /\ grouped = NoGrouped
    /\ expirations = <<>>
    /\ pairs = <<>>
    /\ tickers \in TickerLists
    /\ scan_i = 0
    /\ scanned = <<>>
    /\ results = <<>>

NextMulti == ScanNextTicker \/ ScanSortAndReturn

SpecMulti == InitMulti /\ [][NextMulti]_vars

----------------------------------------------------------------------------
(* The earnings resolvers, called once *)

\* FFScannerService.get_earnings_info(ticker, front_date, back_date)
GetEarningsInfo ==
    /\ earn_in = NoLookup
    /\ \E client \in BOOLEAN, lookup \in Lookups, front_date \in FrontDates,
          back_date \in BackDates, hour \in LookupHours :
         /\ earn_in' = [call |-> "get_earnings_info", client |-> client,
                        lookup |-> lookup, front_date |-> front_date,
                        back_date |-> back_date, now |-> Datetime(Today, hour)]
         /\ earn_out' = [call |-> "get_earnings_info",
                         returned |-> get_earnings_info(client, lookup, front_date,
                                                        back_date,
                                                        Datetime(Today, hour))]
    /\ UNCHANGED <<scanVars, oppVars, calcVars, runVars, edgeVars>>

\* FreeEarningsCalendar / YahooEarningsCalendar .get_earnings_info
CalendarGetEarningsInfo ==
    /\ earn_in = NoLookup
    /\ \E earnings_date \in LookedUpDates, front_date \in FrontDates,
          back_date \in BackDates :
         /\ earn_in' = [call |-> "calendar_get_earnings_info",
                        earnings_date |-> earnings_date,
                        front_date |-> front_date, back_date |-> back_date]
         /\ earn_out' = [call |-> "calendar_get_earnings_info",
                         returned |-> calendar_get_earnings_info(earnings_date,
                                                                 front_date, back_date)]
    /\ UNCHANGED <<scanVars, oppVars, calcVars, runVars, edgeVars>>

NextEarn == GetEarningsInfo \/ CalendarGetEarningsInfo

SpecEarn == Init /\ [][NextEarn]_vars

----------------------------------------------------------------------------
(* FFScannerService.parse_opportunities on one scan, and the texts          *)
(* analyze_opportunity generates for what it returned                      *)

ParseOpportunities ==
    /\ parsed = NotParsed
    /\ parsed' = parse_opportunities(scan_data)
    /\ UNCHANGED <<scan_data, presented, fetchVars, cacheVars, coreVars>>

\* analyze_opportunity on each parsed Opportunity: the signal it carries, the
\* thesis and the trade structure
PresentOpportunities ==
    /\ parsed.raised = "None"
    /\ parsed.value # <<>>
    /\ presented = <<>>
    /\ \E earnings_info \in RunEarningsInfos :
         presented' =
             [i \in 1..Len(parsed.value) |->
                 [opportunity |-> parsed.value[i],
                  thesis |-> generate_thesis(parsed.value[i], earnings_info),
                  trade_structure |-> generate_trade_structure(parsed.value[i])]]
    /\ UNCHANGED <<scan_data, parsed, fetchVars, cacheVars, coreVars>>

\* get_latest_scan has delivered any one scan
InitParse ==
    /\ InitOppVars /\ InitCalcVars /\ InitRunVars /\ InitScanVars /\ InitEarnVars
    /\ InitFetchVars /\ InitCacheVars
    /\ scan_data \in ScanLists
    /\ parsed = NotParsed
    /\ presented = <<>>

NextParse == ParseOpportunities \/ PresentOpportunities

SpecParse == InitParse /\ [][NextParse]_vars

----------------------------------------------------------------------------
(* ForwardFactorScanner.fetch_options_chain: one action per requests.get    *)
(* and the handling of its outcome.  The call on HTTP 429 is recursive, so  *)
(* the number of 429 responses so far is the nesting depth.                 *)

FetchCall ==
    /\ fetch_pc = "idle"
    /\ fetch_pc' = "request"
    /\ UNCHANGED <<fetch_log, fetch_out, slept, parseVars, cacheVars, coreVars>>

\* status 200: return data.get('results', [])
FetchReturnsResults ==
    /\ fetch_pc = "request"
    /\ Len(fetch_log) < RecursionLimit
    /\ \E response \in ProviderResponses :
         /\ response.raised = "None"
         /\ response.status_code = 200
         /\ fetch_log' = Append(fetch_log, response)
         /\ fetch_out' = Some(IF response.results = Absent THEN <<>>
                              ELSE CHOOSE r \in response.results : TRUE)
    /\ fetch_pc' = "done"
    /\ UNCHANGED <<slept, parseVars, cacheVars, coreVars>>

\* status 429: time.sleep(60), then return self.fetch_options_chain(...)
FetchRateLimited ==
    /\ fetch_pc = "request"
    /\ Len(fetch_log) < RecursionLimit
    /\ \E response \in ProviderResponses :
         /\ response.raised = "None"
         /\ response.status_code = 429
         /\ fetch_log' = Append(fetch_log, response)
    /\ slept' = slept + 60
    /\ UNCHANGED <<fetch_pc, fetch_out, parseVars, cacheVars, coreVars>>

\* any other status, or requests.get raising: return []
FetchFails ==
    /\ fetch_pc = "request"
    /\ Len(fetch_log) < RecursionLimit
    /\ \E response \in ProviderResponses :
         /\ IF response.raised = "None" THEN response.status_code \notin {200, 429}
            ELSE TRUE
         /\ fetch_log' = Append(fetch_log, response)
    /\ fetch_out' = Some(<<>>)
    /\ fetch_pc' = "done"
    /\ UNCHANGED <<slept, parseVars, cacheVars, coreVars>>

\* the nesting has reached the interpreter's limit: the next call raises
\* RecursionError inside the try block, and except Exception returns []
FetchRecursionError ==
    /\ fetch_pc = "request"
    /\ Len(fetch_log) = RecursionLimit
    /\ fetch_out' = Some(<<>>)
    /\ fetch_pc' = "done"
    /\ UNCHANGED <<fetch_log, slept, parseVars, cacheVars, coreVars>>

NextFetch ==
    \/ FetchCall
    \/ FetchReturnsResults
    \/ FetchRateLimited
    \/ FetchFails
    \/ FetchRecursionError

SpecFetch == Init /\ [][NextFetch]_vars

----------------------------------------------------------------------------
(* get_earnings_date of FreeEarningsCalendar / YahooEarningsCalendar,       *)
(* called by several workers on one cache object.  A worker can be          *)
(* preempted between the cache test, the provider request and the store.    *)

\* if ticker in self.cache: return self.cache[ticker]
CacheLookup(w) ==
    /\ worker[w] = Idle
    /\ \E ticker \in Tickers :
         worker' = [worker EXCEPT ![w] =
                       IF cache[ticker] # Absent
                       THEN [pc |-> "returned", ticker |-> ticker,
                             value |-> cache[ticker], fetched |-> FALSE]
                       ELSE [pc |-> "miss", ticker |-> ticker]]
    /\ UNCHANGED <<cache, fetches, parseVars, fetchVars, coreVars>>

\* requests.get: the provider answers a date or none
ProviderFetch(w) ==
    /\ worker[w].pc = "miss"
    /\ \E earnings_date \in ProviderDates :
         worker' = [worker EXCEPT ![w] = [pc |-> "fetched", ticker |-> worker[w].ticker,
                                          earnings_date |-> earnings_date]]
    /\ fetches' = [fetches EXCEPT ![worker[w].ticker] = @ + 1]
    /\ UNCHANGED <<cache, parseVars, fetchVars, coreVars>>

\* self.cache[ticker] = earnings_date; return earnings_date (a date only:
\* without one, None is returned and nothing is stored)
CacheStore(w) ==
    /\ worker[w].pc = "fetched"
    /\ cache' = IF worker[w].earnings_date # Absent
                THEN [cache EXCEPT ![worker[w].ticker] = worker[w].earnings_date]
                ELSE cache
    /\ worker' = [worker EXCEPT ![w] = [pc |-> "returned", ticker |-> worker[w].ticker,
                                        value |-> worker[w].earnings_date,
                                        fetched |-> TRUE]]
    /\ UNCHANGED <<fetches, parseVars, fetchVars, coreVars>>

NextCache ==
    \E w \in Workers : CacheLookup(w) \/ ProviderFetch(w) \/ CacheStore(w)

SpecCache == Init /\ [][NextCache]_vars

----------------------------------------------------------------------------
(* Claims *)

Analyzed == result.call = "analyze_opportunity"

Has(reasons, r) == \E i \in 1..Len(reasons) : reasons[i] = r

\* the eight gates, as the rejecting conditions read
GateMagnitude(o) == Abs(o.forward_factor) < Pct(30)
GateDTEFloor(o) == o.front_dte < 7
GateDTECeiling(o) == o.front_dte > 180
GateIVFloor(o) == o.front_iv < Pct(15)
GateIVCeiling(o) == o.front_iv > Pct(150)
GateEarningsConflict(o) ==
    o.has_earnings_soon /\ o.front_iv > o.back_iv /\ Abs(o.forward_factor) < Pct(40)
GateCalculation(o) == ~verify_forward_factor(o).matches
GateSpread(o) == o.back_dte - o.front_dte < 3

AnyGateRejects(o) ==
    \/ GateMagnitude(o) \/ GateDTEFloor(o) \/ GateDTECeiling(o)
    \/ GateIVFloor(o) \/ GateIVCeiling(o) \/ GateEarningsConflict(o)
    \/ GateCalculation(o) \/ GateSpread(o)

ReasonIf(cond, r) == IF cond THEN <<r>> ELSE <<>>

ExpectedReasons(o) ==
    ReasonIf(GateMagnitude(o), "Forward Factor too low")
    \o ReasonIf(GateDTEFloor(o), "Front DTE too short")
    \o ReasonIf(GateDTECeiling(o), "Front DTE too long")
    \o ReasonIf(GateIVFloor(o), "Front IV too low")
    \o ReasonIf(GateIVCeiling(o), "Front IV too high")
    \o ReasonIf(GateEarningsConflict(o), "FALSE SIGNAL")
    \o ReasonIf(GateCalculation(o), "Forward Factor calculation mismatch")
    \o ReasonIf(GateSpread(o), "DTE difference too small")

\* C1: apply_quality_filters returns is_quality = true iff the rejection-reason
\* list is empty, and the list is empty iff none of the eight gates rejects,
\* for every Opportunity and every EarningsInfo, absent or present.
C1_QualityIffNoReason ==
    Analyzed =>
        LET a == result.analysis
        IN  /\ a.is_quality_setup <=> (a.rejection_reasons = <<>>)
            /\ (a.rejection_reasons = <<>>) <=> ~AnyGateRejects(a.opportunity)

\* a quality setup analysed without earnings data, and all gates passing
C1_Witness ==
    /\ Analyzed
    /\ result.analysis.is_quality_setup
    /\ result.analysis.earnings_info = NoEarningsInfo
    /\ ~AnyGateRejects(opp)

\* C2: apply_quality_filters never short-circuits: the returned list holds
\* exactly one reason per rejecting gate, in the order magnitude, front DTE
\* floor, front DTE ceiling, IV floor, IV ceiling, earnings conflict,
\* calculation mismatch, spread width.
C2_AllReasonsInOrder ==
    Analyzed => result.analysis.rejection_reasons = ExpectedReasons(opp)

\* six gates reject at once, the first and the last of the order among them
C2_Witness ==
    /\ Analyzed
    /\ result.analysis.rejection_reasons =
         <<"Forward Factor too low", "Front DTE too short", "Front IV too high",
           "FALSE SIGNAL", "Forward Factor calculation mismatch",
           "DTE difference too small">>

\* C3: an Opportunity with |forward_factor| < 30 is rejected whatever its other
\* fields and the EarningsInfo; one with |forward_factor| exactly 30 is not
\* rejected by the magnitude gate.
C3_MagnitudeGate ==
    Analyzed =>
        LET a == result.analysis
        IN  /\ Abs(opp.forward_factor) < Pct(30) =>
                 /\ ~a.is_quality_setup
                 /\ Has(a.rejection_reasons, "Forward Factor too low")
            /\ Abs(opp.forward_factor) = Pct(30) =>
                 ~Has(a.rejection_reasons, "Forward Factor too low")

\* |FF| = 25 is rejected by the magnitude gate alone
C3_Witness ==
    /\ Analyzed
    /\ opp.forward_factor = Pct(25)
    /\ ~result.analysis.is_quality_setup
    /\ result.analysis.rejection_reasons = <<"Forward Factor too low">>

\* C4: an Opportunity whose front_dte is below 7 or above 180 is rejected even
\* when every other gate passes; front_dte exactly 7 or exactly 180 is not
\* rejected by the DTE gates.
C4_DTEGates ==
    Analyzed =>
        LET a == result.analysis
        IN  /\ opp.front_dte < 7 =>
                 ~a.is_quality_setup /\ Has(a.rejection_reasons, "Front DTE too short")
            /\ opp.front_dte > 180 =>
                 ~a.is_quality_setup /\ Has(a.rejection_reasons, "Front DTE too long")
            /\ opp.front_dte \in {7, 180} =>
                 /\ ~Has(a.rejection_reasons, "Front DTE too short")
                 /\ ~Has(a.rejection_reasons, "Front DTE too long")

\* a front DTE below the floor is the only failing gate
C4_Witness ==
    /\ Analyzed
    /\ opp.front_dte < 7
    /\ ~result.analysis.is_quality_setup
    /\ result.analysis.rejection_reasons = <<"Front DTE too short">>

Rederived(o) ==
    calculate_forward_factor(o.front_iv, o.front_dte, o.back_iv, o.back_dte)

\* C6: the calculation-consistency gate rejects exactly when the Forward Factor
\* re-derived from (front_iv, front_dte, back_iv, back_dte) differs from the
\* stored forward_factor by 2.0 points or more, whatever the stored forward_vol.
C6_GateRederives ==
    (Analyzed /\ Rederived(opp).error = "None") =>
        (Has(result.analysis.rejection_reasons, "Forward Factor calculation mismatch")
         <=> Abs(Rederived(opp).forward_factor - opp.forward_factor) >= Pct(2))

OppCarriesCalc ==
    /\ opp # NoOpportunity
    /\ calc_out.error = "None"
    /\ opp.front_iv = calc_in.front_iv /\ opp.front_dte = calc_in.front_dte
    /\ opp.back_iv = calc_in.back_iv /\ opp.back_dte = calc_in.back_dte
    /\ opp.forward_vol = calc_out.forward_vol
    /\ opp.forward_factor = calc_out.forward_factor

C8_RatingInRange ==
    /\ result.call = "calculate_rating" => result.rating \in 0..10
    /\ Analyzed => result.analysis.rating \in 0..10

\* every bonus applies and no penalty: the sum is 12 and the rating 10
C8_Witness ==
    /\ result.call = "calculate_rating"
    /\ opp.forward_factor = Pct(80)
    /\ opp.front_dte = 20
    /\ opp.front_iv <= opp.back_iv
    /\ result.earnings_info = EarningsInfo(AnEarningsDate, TRUE, TRUE, TRUE, FALSE)
    /\ result.probability = Pct(85)
    /\ result.risk_reward = Tenths(5)
    /\ result.rating = 10

AllSetups == quality_setups \o rejected_setups

SameButFF(a, b) ==
    /\ a.opportunity.front_dte = b.opportunity.front_dte
    /\ a.opportunity.front_iv = b.opportunity.front_iv
    /\ a.opportunity.back_dte = b.opportunity.back_dte
    /\ a.opportunity.back_iv = b.opportunity.back_iv
    /\ a.opportunity.has_earnings_soon = b.opportunity.has_earnings_soon
    /\ a.earnings_info = b.earnings_info

\* C9: the rating analyze_opportunity produces is non-decreasing in
\* |forward_factor|: of two analysed Opportunities that differ in forward_factor
\* (and the forward_vol and id reported with it) only, with the same
\* EarningsInfo, the one with the larger |FF| has no lower rating.
C9_RatingMonotone ==
    \A i, j \in 1..Len(AllSetups) :
        LET a == AllSetups[i]
            b == AllSetups[j]
        IN  (SameButFF(a, b)
             /\ Abs(a.opportunity.forward_factor) <= Abs(b.opportunity.forward_factor))
            => a.rating <= b.rating

\* FF +45 and FF -80 analysed in one run under the same conditions, the second
\* rated strictly higher
C9_Witness ==
    \E i, j \in 1..Len(AllSetups) :
        /\ SameButFF(AllSetups[i], AllSetups[j])
        /\ AllSetups[i].opportunity.forward_factor = Pct(45)
        /\ AllSetups[j].opportunity.forward_factor = -Pct(80)
        /\ AllSetups[i].rating < AllSetups[j].rating

\* C10: the quality_setups run_analysis returns are in rating-descending order,
\* analyses of equal rating in the order their Opportunities were analysed;
\* rejected_setups is in analysis order.
C10_StableRanking ==
    run_pc = "done" =>
        /\ \A i, j \in 1..Len(quality_setups) :
             i < j =>
               /\ quality_setups[i].rating >= quality_setups[j].rating
               /\ quality_setups[i].rating = quality_setups[j].rating =>
                    quality_setups[i].opportunity.opportunity_id
                      < quality_setups[j].opportunity.opportunity_id
        /\ \A i, j \in 1..Len(rejected_setups) :
             i < j => rejected_setups[i].opportunity.opportunity_id
                        < rejected_setups[j].opportunity.opportunity_id

\* three quality setups: the first analysed is ranked last, the other two tie
\* and keep their order
C10_Witness ==
    /\ run_pc = "done"
    /\ Len(quality_setups) = 3
    /\ quality_setups[1].rating = quality_setups[2].rating
    /\ quality_setups[2].rating > quality_setups[3].rating
    /\ quality_setups[1].opportunity.opportunity_id = 2
    /\ quality_setups[2].opportunity.opportunity_id = 3
    /\ quality_setups[3].opportunity.opportunity_id = 1

Ids(setups) == { setups[i].opportunity.opportunity_id : i \in 1..Len(setups) }

\* C11: after run_analysis every parsed Opportunity appears in exactly one of
\* the two returned lists (the lengths add up to the number parsed, none
\* dropped, none twice); every analysis in rejected_setups has is_quality_setup
\* false and at least one rejection reason, every analysis in quality_setups
\* has is_quality_setup true and no rejection reason.
C11_Partition ==
    run_pc = "done" =>
        /\ Len(quality_setups) + Len(rejected_setups) = Len(opportunities)
        /\ Ids(quality_setups) \cup Ids(rejected_setups)
             = { opportunities[i].opportunity_id : i \in 1..Len(opportunities) }
        /\ Ids(quality_setups) \cap Ids(rejected_setups) = {}
        /\ \A i \in 1..Len(AllSetups) :
             AllSetups[i].opportunity
               = opportunities[AllSetups[i].opportunity.opportunity_id]
        /\ \A i \in 1..Len(rejected_setups) :
             /\ ~rejected_setups[i].is_quality_setup
             /\ Len(rejected_setups[i].rejection_reasons) >= 1
        /\ \A i \in 1..Len(quality_setups) :
             /\ quality_setups[i].is_quality_setup
             /\ quality_setups[i].rejection_reasons = <<>>

\* three Opportunities parsed, two accepted and one rejected
C11_Witness ==
    /\ run_pc = "done"
    /\ Len(opportunities) = 3
    /\ Len(quality_setups) = 2
    /\ Len(rejected_setups) = 1
    /\ rejected_setups[1].rejection_reasons = <<"Forward Factor too low">>

\* calculate_forward_factor was called
Calculated == calc_in # NoCalc

\* the sign of the forward variance of the call: T2 - T1 > 0, so it is the sign
\* of s2^2*T2 - s1^2*T1
VarianceSign ==
    LET n == (calc_in.back_iv * calc_in.back_iv) * calc_in.back_dte
             - (calc_in.front_iv * calc_in.front_iv) * calc_in.front_dte
    IN  IF n < 0 THEN -1 ELSE IF n = 0 THEN 0 ELSE 1

\* (None, None, error): no forward_vol, no forward_factor, an error marker
Undefined(out) == DOMAIN out = {"error"} /\ out.error # "None"

Points == { expirations[i] : i \in 1..Len(expirations) }

\* place of a TermPoint in the DTE-ascending order of the term structure
Rank(p) == 1 + Cardinality({ q \in Points : q.dte < p.dte })

PointAt(date) == CHOOSE q \in Points : q.date = date

\* a pair's front and back are TermPoints of the structure, as they are
FromStructure(pair) ==
    /\ \E q \in Points : q.date = pair.front_date
    /\ \E q \in Points : q.date = pair.back_date
    /\ pair.front_iv = PointAt(pair.front_date).iv
    /\ pair.front_dte = PointAt(pair.front_date).dte
    /\ pair.back_iv = PointAt(pair.back_date).iv
    /\ pair.back_dte = PointAt(pair.back_date).dte

FrontRank(pair) == Rank(PointAt(pair.front_date))
BackRank(pair) == Rank(PointAt(pair.back_date))

\* C13: find_best_pairs pairs only expirations adjacent in the DTE-ascending
\* order: for n TermPoints at most n-1 pairs, each pair is (sorted[i],
\* sorted[i+1]) for some i, in ascending i, never (i, j) with j > i+1 (also
\* when pair (i, i+1) is undefined), and every pair has back_dte > front_dte.
C13_AdjacentPairsOnly ==
    scan_pc = "done" =>
        /\ Len(expirations) >= 1 => Len(pairs) <= Len(expirations) - 1
        /\ Len(expirations) = 0 => pairs = <<>>
        /\ \A k \in 1..Len(pairs) :
             /\ FromStructure(pairs[k])
             /\ BackRank(pairs[k]) = FrontRank(pairs[k]) + 1
             /\ pairs[k].back_dte > pairs[k].front_dte
        /\ \A k, l \in 1..Len(pairs) :
             k < l => FrontRank(pairs[k]) < FrontRank(pairs[l])

\* three expirations inserted out of DTE order; the pair of the first two in
\* DTE order is undefined, the only pair emitted is the second with the third
C13_Witness ==
    /\ scan_pc = "done"
    /\ Len(expirations) = 3
    /\ expirations[1].dte > expirations[2].dte
    /\ Len(pairs) = 1
    /\ FrontRank(pairs[1]) = 2
    /\ BackRank(pairs[1]) = 3

\* the forward variance of the pair (front, back) is positive: a defined result
Defined(front, back) ==
    (back.iv * back.iv) * back.dte > (front.iv * front.iv) * front.dte

\* C14: an adjacent pair whose Forward Factor is undefined (negative or zero
\* forward variance) is skipped and the walk continues: the output holds
\* exactly the adjacent pairs with a defined result, each with the forward_vol
\* and forward_factor calculate_forward_factor gives for it.
C14_ExactlyDefinedPairs ==
    scan_pc = "done" =>
        \A front, back \in Points :
            Rank(back) = Rank(front) + 1 =>
                IF Defined(front, back)
                THEN \E k \in 1..Len(pairs) :
                        pairs[k] = Pair(front, back,
                                        calculate_forward_factor(front.iv, front.dte,
                                                                 back.iv, back.dte))
                ELSE \A k \in 1..Len(pairs) : pairs[k].front_date # front.date

\* 40% at 7 days, 20% at 28 days, 30% at 120 days: the first pair has zero
\* forward variance and is skipped, the second is emitted
C14_Witness ==
    /\ scan_pc = "done"
    /\ Len(expirations) = 3
    /\ \E a, b, c \in Points :
         /\ a.dte = 7 /\ a.iv = Pct(40)
         /\ b.dte = 28 /\ b.iv = Pct(20)
         /\ c.dte = 120 /\ c.iv = Pct(30)
         /\ ~Defined(a, b)
         /\ Defined(b, c)
    /\ Len(pairs) = 1
    /\ pairs[1].front_dte = 28
    /\ pairs[1].back_dte = 120
    /\ pairs[1].forward_vol > 0

Grouped == grouped.call = "group_by_expiration"

\* the contracts of the chain whose delta magnitude lies in [0.45, 0.55]
InBand ==
    { i \in 1..Len(options_data) :
        \E delta \in options_data[i].delta : Abs(delta) \in 45..55 }

FirstInBand == CHOOSE i \in InBand : \A j \in InBand : i <= j

\* the contract survives the filters: valid date, strike within 10% of the
\* price estimate, IV present and in (0, 500]
Survives(i) ==
    LET c == options_data[i]
        price == options_data[FirstInBand].strike_price
    IN  /\ InBand # {}
        /\ c.expiration_date.valid
        /\ 10 * Abs(c.strike_price - price) <= price
        /\ \E iv \in c.implied_volatility : 0 < iv /\ iv <= Pct(500)

Survivors(day) ==
    { i \in 1..Len(options_data) :
        Survives(i) /\ options_data[i].expiration_date.day = day }

Days ==
    { options_data[i].expiration_date.day :
        i \in { j \in 1..Len(options_data) : options_data[j].expiration_date.valid } }

RECURSIVE SumIVs(_)
SumIVs(S) ==
    IF S = {} THEN 0
    ELSE LET i == CHOOSE j \in S : TRUE
         IN  (CHOOSE iv \in options_data[i].implied_volatility : TRUE)
             + SumIVs(S \ {i})

\* iv is sum / n on the grid of hundredths of a percent
IsMean(iv, sum, n) == n * iv <= sum /\ sum < n * (iv + 1)

TermPointsOf(day) ==
    { k \in 1..Len(grouped.result) : grouped.result[k].date = day }

\* C15: group_by_expiration produces a TermPoint for an expiration only if at
\* least 3 of its contracts survive the filters and its DTE is > 0: exactly 2
\* surviving contracts yield no TermPoint; 3 surviving contracts and a future
\* date yield a TermPoint whose iv is the arithmetic mean of the surviving IVs
\* and whose count is 3.
C15_ThreeContractFloor ==
    Grouped =>
        /\ \A k \in 1..Len(grouped.result) :
             /\ grouped.result[k].date \in Days
             /\ Cardinality(Survivors(grouped.result[k].date)) >= 3
             /\ grouped.result[k].dte > 0
        /\ \A day \in Days :
             /\ Cardinality(Survivors(day)) = 2 => TermPointsOf(day) = {}
             /\ (Cardinality(Survivors(day)) = 3 /\ day > Today) =>
                  \E k \in 1..Len(grouped.result) :
                      /\ TermPointsOf(day) = {k}
                      /\ grouped.result[k].count = 3
                      /\ grouped.result[k].dte = day - Today
                      /\ IsMean(grouped.result[k].iv, SumIVs(Survivors(day)), 3)

\* four contracts of one future expiration, one of them with an IV above 500:
\* three survive, with IVs 30, 33 and 36, and the TermPoint has iv 33
C15_Witness ==
    /\ Grouped
    /\ Len(options_data) = 4
    /\ Cardinality(Survivors(Today + 30)) = 3
    /\ SumIVs(Survivors(Today + 30)) = Pct(30) + Pct(33) + Pct(36)
    /\ Cardinality({ i \in 1..4 : options_data[i].expiration_date = DateStr(Today + 30) }) = 4
    /\ grouped.result = <<TermPoint(Today + 30, Pct(33), 30, 3)>>

TermPointsScanned(i) == group_by_expiration(scanned[i].options)

\* C17: scan_multiple never fails as a whole because of one underlying: every
\* ticker of the input list is scanned exactly once, in input order, whatever
\* earlier tickers returned (no options data, fewer than 2 TermPoints, no valid
\* pair); a ticker with fewer than 2 TermPoints contributes no entry to the
\* results, and the results keep the input order of the tickers that contribute.
C17_EveryTickerScanned ==
    /\ Len(scanned) = scan_i
    /\ \A i \in 1..Len(scanned) : scanned[i].ticker = tickers[i]
    /\ scan_pc = "done" => Len(scanned) = Len(tickers)
    /\ \E f \in [1..Len(results) -> 1..Len(scanned)] :
         /\ \A k, l \in 1..Len(results) : k < l => f[k] < f[l]
         /\ \A k \in 1..Len(results) :
              /\ results[k].ticker = scanned[f[k]].ticker
              /\ results[k].expirations = TermPointsScanned(f[k])
              /\ Len(TermPointsScanned(f[k])) >= 2

\* three tickers: no options data for the first, one TermPoint for the second,
\* and the third is still scanned and is the only entry of the results
C17_Witness ==
    /\ scan_pc = "done"
    /\ Len(tickers) = 3
    /\ Len(scanned) = 3
    /\ scanned[1].options = <<>>
    /\ Len(TermPointsScanned(2)) = 1
    /\ Len(results) = 1
    /\ results[1].ticker = tickers[3]
    /\ results[1].expirations = TermPointsScanned(3)

ServiceLookup == earn_in.call = "get_earnings_info"
CalendarLookup == earn_in.call = "calendar_get_earnings_info"

\* the date strings of the lookup: from the external source, and the expirations
SourceDate ==
    IF ServiceLookup
    THEN (IF earn_in.client /\ ~earn_in.lookup.raised
          THEN earn_in.lookup.earnings_date ELSE Absent)
    ELSE earn_in.earnings_date

Malformed ==
    \/ \E d \in SourceDate : ~d.valid
    \/ SourceDate # Absent /\ (~earn_in.front_date.valid \/ ~earn_in.back_date.valid)

\* the "no known catalyst" state: date absent, all booleans false
NoKnownCatalyst(info) ==
    /\ "earnings_date" \in DOMAIN info
    /\ info.earnings_date = Absent
    /\ ~info.front_is_pre_earnings
    /\ ~info.back_is_post_earnings
    /\ ~info.both_post_earnings
    /\ ServiceLookup => ~info.has_earnings_soon

\* C18: the earnings resolver (get_earnings_info of FFScannerService,
\* FreeEarningsCalendar and YahooEarningsCalendar) never raises and resolves to
\* the "no known catalyst" state, an EarningsInfo whose earnings date is absent
\* and whose booleans are all false, whenever no earnings date is available
\* for the ticker or a date string (from the source, or an expiration) is
\* malformed.
C18_NoKnownCatalyst ==
    ((ServiceLookup \/ CalendarLookup) /\ (SourceDate = Absent \/ Malformed)) =>
        NoKnownCatalyst(earn_out.returned)

\* whole days from today's date to the earnings date
DaysFromToday == (CHOOSE d \in SourceDate : TRUE).day - earn_in.now.day

\* C19: when an earnings date is available, get_earnings_info sets
\* has_earnings_soon to true exactly when the earnings date is fewer than 60
\* days from today, with a symmetric window: at every time of day, an earnings
\* date d days after today and one d days before today get the same value,
\* true iff d < 60.
C19_SymmetricWindow ==
    (ServiceLookup /\ SourceDate # Absent /\ ~Malformed) =>
        (earn_out.returned.has_earnings_soon <=> Abs(DaysFromToday) < 60)

\* the EarningsInfo of the "no known catalyst" state
NoCatalystInfo == EarningsInfo(Absent, FALSE, FALSE, FALSE, FALSE)

\* C20: the filter and the scorer degrade gracefully on absent earnings data:
\* for every Opportunity, apply_quality_filters, calculate_probability,
\* calculate_risk_reward and calculate_rating give the same results when the
\* EarningsInfo is absent (None) as when it is the "no known catalyst"
\* EarningsInfo (date absent, all booleans false), and none of them raises.
C20_AbsentAsNoCatalyst ==
    /\ (Analyzed /\ result.analysis.earnings_info = NoEarningsInfo) =>
          LET a == result.analysis
              b == analyze_opportunity(opp, NoCatalystInfo)
          IN  /\ a.is_quality_setup = b.is_quality_setup
              /\ a.rejection_reasons = b.rejection_reasons
              /\ a.probability = b.probability
              /\ a.risk_reward = b.risk_reward
              /\ a.rating = b.rating
              /\ a.rating \in 0..10
    /\ (result.call = "calculate_rating" /\ result.earnings_info = NoEarningsInfo) =>
          result.rating = calculate_rating(opp, NoCatalystInfo, result.probability,
                                           result.risk_reward)

\* a quality setup flagged has_earnings_soon by the scanner, analysed without
\* earnings data, rated 8 as with the "no known catalyst" EarningsInfo
C20_Witness ==
    /\ Analyzed
    /\ result.analysis.earnings_info = NoEarningsInfo
    /\ opp.has_earnings_soon
    /\ result.analysis.is_quality_setup
    /\ result.analysis.rating = 8
    /\ analyze_opportunity(opp, NoCatalystInfo).rating = 8

\* a step function given as a table of (threshold, value) rows: the value of
\* the highest threshold that x reaches
StepValue(steps, x) ==
    LET reached == { s \in steps : s[1] <= x }
        top == CHOOSE s \in reached : \A t \in reached : t[1] <= s[1]
    IN  top[2]

ProbabilitySteps ==
    { <<Pct(80), Pct(85)>>, <<Pct(60), Pct(80)>>, <<Pct(40), Pct(75)>>,
      <<Pct(30), Pct(70)>>, <<Pct(20), Pct(65)>>, <<0, Pct(60)>> }

ProbabilityAsStated(o, probability) ==
    LET base == StepValue(ProbabilitySteps, Abs(o.forward_factor))
    IN  /\ o.has_earnings_soon => 100 * probability = 85 * base
        /\ ~o.has_earnings_soon => probability = base
        /\ 0 <= probability /\ probability <= Pct(100)

\* C21: calculate_probability is the step function of |forward_factor| with
\* values 85 for >= 80, 80 for >= 60, 75 for >= 40, 70 for >= 30, 65 for >= 20
\* and 60 otherwise (thresholds inclusive), multiplied by 0.85 exactly when
\* has_earnings_soon is true; the result lies in [0, 100].
C21_ProbabilitySteps ==
    /\ result.call = "calculate_probability" =>
         ProbabilityAsStated(opp, result.probability)
    /\ Analyzed => ProbabilityAsStated(opp, result.analysis.probability)

\* FF exactly -80 with earnings soon: 85 * 0.85 = 72.25
C21_Witness ==
    /\ result.call = "calculate_probability"
    /\ opp.forward_factor = -Pct(80)
    /\ opp.has_earnings_soon
    /\ result.probability = 7225

RatingSteps == { <<Pct(80), 3>>, <<Pct(60), 2>>, <<Pct(40), 1>>, <<0, 0>> }

\* the +1 bonuses that apply
Bonuses(o, earnings_info, probability, risk_reward) ==
    { b \in {"clean straddle", "front_dte", "probability", "risk_reward"} :
        \/ /\ b = "clean straddle"
           /\ earnings_info # NoEarningsInfo
           /\ earnings_info.has_earnings_soon
           /\ earnings_info.front_is_pre_earnings
           /\ earnings_info.back_is_post_earnings
        \/ b = "front_dte" /\ o.front_dte \in 20..60
        \/ b = "probability" /\ ~(probability < Pct(80))
        \/ b = "risk_reward" /\ ~(risk_reward < Tenths(4)) }

\* the rating as stated, before the clamp
RatingPoints(o, earnings_info, probability, risk_reward) ==
    5 + StepValue(RatingSteps, Abs(o.forward_factor))
    + Cardinality(Bonuses(o, earnings_info, probability, risk_reward))
    - (IF o.front_iv > o.back_iv THEN 1 ELSE 0)

Clamp(lo, hi, x) == IF x < lo THEN lo ELSE IF x > hi THEN hi ELSE x

\* C22: calculate_rating equals the clamp to [0,10] of 5, plus 3/2/1/0 for
\* |forward_factor| >= 80 / >= 60 / >= 40 / otherwise, plus 1 iff an
\* EarningsInfo is present with has_earnings_soon, front_is_pre_earnings and
\* back_is_post_earnings all true, plus 1 iff 20 <= front_dte <= 60, minus 1 iff
\* front_iv > back_iv, plus 1 iff probability >= 80, plus 1 iff risk_reward >=
\* 4.0, for every input combination.
C22_RatingFormula ==
    /\ result.call = "calculate_rating" =>
         result.rating = Clamp(0, 10, RatingPoints(opp, result.earnings_info,
                                                   result.probability,
                                                   result.risk_reward))
    /\ Analyzed =>
         result.analysis.rating =
             Clamp(0, 10, RatingPoints(opp, result.analysis.earnings_info,
                                       result.analysis.probability,
                                       result.analysis.risk_reward))

\* |FF| 60, front DTE 60, inverted, probability 80, risk/reward 4.0, and an
\* EarningsInfo that straddles the date but is not soon: 5 + 2 + 1 - 1 + 1 + 1
C22_Witness ==
    /\ result.call = "calculate_rating"
    /\ opp.forward_factor = Pct(60)
    /\ opp.front_dte = 60
    /\ opp.front_iv > opp.back_iv
    /\ result.earnings_info = EarningsInfo(AnEarningsDate, FALSE, TRUE, TRUE, FALSE)
    /\ result.probability = Pct(80)
    /\ result.risk_reward = Tenths(4)
    /\ result.rating = 9

\* C30: the rating analyze_opportunity stores is never below 4: the only
\* negative term is the -1 inversion penalty on the base 5, so the lower clamp
\* never binds, and the upper clamp binds only when the unclamped sum is 11 or
\* 12.
C30_RatingAtLeastFour ==
    Analyzed =>
        LET points == RatingPoints(opp, result.analysis.earnings_info,
                                   result.analysis.probability,
                                   result.analysis.risk_reward)
        IN  /\ result.analysis.rating >= 4
            /\ points >= 4
            /\ result.analysis.rating # points =>
                 (points \in {11, 12} /\ result.analysis.rating = 10)

\* |FF| below 40, front DTE outside 20..60, inverted, no catalyst: 5 - 1
C30_Witness ==
    /\ Analyzed
    /\ Abs(opp.forward_factor) < Pct(40)
    /\ opp.front_dte = 61
    /\ opp.front_iv > opp.back_iv
    /\ result.analysis.earnings_info = NoEarningsInfo
    /\ result.analysis.rating = 4

\* C28: every Opportunity that run_analysis classifies as a quality setup meets
\* the configured thresholds on the scores: probability >= MIN_PROBABILITY
\* (70.0) and risk_reward >= MIN_RISK_REWARD (3.0).
C28_QualityMeetsThresholds ==
    \A i \in 1..Len(quality_setups) :
        /\ quality_setups[i].probability >= MIN_PROBABILITY
        /\ quality_setups[i].risk_reward >= MIN_RISK_REWARD

Sign(x) == IF x > 0 THEN 1 ELSE IF x < 0 THEN -1 ELSE 0

C23_SignalAgrees ==
    \A i \in 1..Len(presented) :
        LET o == presented[i].opportunity
        IN  /\ o.forward_factor > 0 =>
                 /\ o.signal = "SELL"
                 /\ presented[i].thesis.direction = "SELL FRONT / BUY BACK"
                 /\ presented[i].trade_structure = "Calendar Spread (Credit)"
            /\ o.forward_factor < 0 =>
                 /\ o.signal = "BUY"
                 /\ presented[i].thesis.direction = "BUY FRONT / SELL BACK"
                 /\ presented[i].trade_structure = "Reverse Calendar Spread (Debit)"

NumericKeys ==
    {"forward_factor", "front_dte", "front_iv", "back_dte", "back_iv", "forward_vol"}
RequiredKeys == NumericKeys \cup {"ticker", "signal", "front_date", "back_date", "id"}

\* a required field is missing, holds null, or holds a non-numeric string
\* where a number is expected
MalformedRecord(rec) ==
    \E key \in RequiredKeys :
        \/ rec[key] = Absent
        \/ rec[key] = Some(JNull)
        \/ /\ key \in NumericKeys
           /\ \E v \in rec[key] : IF v.json = "string" THEN ~v.numeric ELSE FALSE

\* the positions of the well-formed records, in input order
WellFormedIds ==
    SelectSeq([i \in 1..Len(scan_data) |-> i],
              LAMBDA i : ~MalformedRecord(scan_data[i]))

\* C25: parse_opportunities never propagates an exception caused by a
\* malformed scan record: whether a required field is missing, holds a
\* non-numeric string or holds null, that record alone is skipped and all
\* well-formed records are returned, in input order.
C25_MalformedSkipped ==
    parsed # NotParsed =>
        /\ parsed.raised = "None"
        /\ [i \in 1..Len(parsed.value) |-> parsed.value[i].opportunity_id]
             = WellFormedIds

Returners(ticker) ==
    { w \in Workers : worker[w].pc = "returned" /\ worker[w].ticker = ticker }

\* C24: the earnings-date cache has at-most-one-fetch-per-key semantics under
\* concurrent lookups: for every interleaving of get_earnings_date calls on one
\* cache object the provider is fetched at most once per ticker; the first
\* caller populates the entry and every other caller returns that value.
C24_AtMostOneFetch ==
    \A ticker \in Tickers :
        /\ fetches[ticker] <= 1
        /\ \A w1, w2 \in Returners(ticker) : worker[w1].value = worker[w2].value

\* the contract as a provider that reports IV as a fraction delivers it: 35.2
\* percent is 0.352, a hundredth of the number
AsFraction(option) ==
    [option EXCEPT !.implied_volatility = { iv \div 100 : iv \in @ }]

FractionChain == [i \in 1..Len(options_data) |-> AsFraction(options_data[i])]

\* C26: the core normalises implied volatility to a percentage: a chain whose
\* IVs are delivered as fractions and the same chain delivered in percent give
\* the same TermPoints, IV in percent, from group_by_expiration.
C26_NormalisedIV ==
    grouped.call = "group_by_expiration" =>
        group_by_expiration(FractionChain) = grouped.result

\* a response that is a provider failure: requests.get raised, or any status
\* but 200
ProviderFailure(response) ==
    IF response.raised = "None" THEN response.status_code # 200 ELSE TRUE

\* C27: fetch_options_chain returns the provider's results on HTTP 200 and the
\* empty list on every provider failure (any non-200 status including 429, a
\* timeout, any other exception), for every sequence of provider responses: a
\* failure response ends the call with the empty list, a 200 with its results.
C27_EmptyOnFailure ==
    \A i \in 1..Len(fetch_log) :
        /\ fetch_pc = "done"
        /\ i = Len(fetch_log)
        /\ ProviderFailure(fetch_log[i]) => fetch_out = Some(<<>>)
        /\ ~ProviderFailure(fetch_log[i]) =>
             fetch_out = IF fetch_log[i].results = Absent THEN Some(<<>>)
                         ELSE fetch_log[i].results

============================================================================
